---- MODULE Spec2Model ----
(***************************************************************************)
(* Escrow checkout (offers/001_amazon_storage finalizeCheckout) and the    *)
(* usage-metering ledger (DatabaseService.addUsageRecordAndDeductBalance)  *)
(* of the vendor server.                                                   *)
(*                                                                         *)
(* Money is counted in raw token units (1e-6 USDC): a USD Number of the    *)
(* code with six decimals, and a NUMERIC(18, 6) column, is the integer     *)
(* count of millionths.                                                    *)
(***************************************************************************)
EXTENDS Integers, Sequences, FiniteSets, TLC

\* ------------------------------------------------------------------ bounds
MaxCalls == 2
MaxDeposits == 1
MaxWallets == 1
MaxGasCalls == 3
MaxOpCalls == 2
MaxMeterCalls == 2
MaxReplies == 2
MaxRows == 3
MaxRuns == 2

\* --------------------------------------------------------------- constants
minTargetBalance == 500000
gas_transfer_buffer == 400000
\* GAS_TANK_AMOUNT_ETH = 0.00005, counted in millionths of ETH
GAS_TANK_AMOUNT_ETH == 50
LowCap == 10000000
CriticalCap == 2000000
TerminationFloor == 50000

NULL == "null"
NoPurchase == -1
NoRow == [exists |-> FALSE]

Sessions == {"s0", "s1", "s2"}
NewSessions == <<"s1", "s2">>
Procs == {"f1", "f2"}
DepositAmounts == {300000, 600000, 2010000, 12000000}

GasProcs == {"g1", "g2"}
OpProcs == {"o1"}
OpsTopups == {0, 2010000}
OpsDeposits == {300000, 12000000}
MeterProcs == {"m1", "m2"}
BilledAmounts == {250000, 600000, 3300000}
SeedOpening == {200000, 4000000}
SeedBalances == {280000, 1000000, 4000000}
MeteredPurchases == {0, 1, 7}

VARIABLES
    checkout_wallets,    \* table checkout_wallets, keyed by checkout_session_id
    customer_purchases,  \* table customer_purchases, a set of rows
    next_purchase,       \* GenerateID.CustomerPurchase(): ids handed out so far
    chain_token,         \* on-chain USDC balance of each wallet address
    transfers,           \* confirmed ERC-20 transfers to the offramp address
    deposits,            \* customer deposits made so far
    calls,               \* finalize requests received so far
    pc,                  \* position of each finalize request handler
    loc,                 \* the handler's local variables
    finalized,           \* sessions for which finalize has answered success
    usage_records,       \* table usage_records (committed rows)
    meter_calls,         \* recordUsage calls received so far
    mpc,                 \* position of each addUsageRecordAndDeductBalance
    mloc,                \* its local variables and its open transaction
    gas_txs,             \* transactions of the gas-tank account the node holds
    native,              \* native-currency balance of each wallet address
    gas_calls,           \* sendFromGasTank calls made so far
    gpc,                 \* position of each sendFromGasTank call
    gloc,                \* its local variables, and what its caller does next
    op_calls,            \* validate and topup requests received so far
    opc,                 \* position of each validate / topup request handler
    oloc,                \* the handler's local variables
    topup_balance,       \* customer_purchases.balance as topup writes it, by
                         \* the purchase's checkout_session_id (-1: not written)
    provisions,          \* the calls of AwsService.deployNewS3Bucket made so far
    cost_report,         \* the rows of the month's cost report in the bucket
    job,                 \* runDailyBillingJob: its position and what it did
    replies,             \* the response bodies sent to HTTP callers so far
    legacy_keys,         \* customer_purchases also has the columns of
                         \* schema/schema.sql (vendor_update_billing_api_key)
    report               \* the last answer of getHistoricalBillingReport

checkout_vars == <<checkout_wallets, customer_purchases, next_purchase,
                   chain_token, transfers, deposits, calls, pc, loc, finalized>>
meter_vars == <<usage_records, meter_calls, mpc, mloc>>
gas_vars == <<gas_txs, native, gas_calls, gpc, gloc>>
ops_vars == <<op_calls, opc, oloc, topup_balance>>
aws_vars == <<provisions, cost_report, job>>
http_vars == <<replies, legacy_keys, report>>
vars == <<checkout_wallets, customer_purchases, next_purchase, chain_token,
          transfers, deposits, calls, pc, loc, finalized,
          usage_records, meter_calls, mpc, mloc,
          gas_txs, native, gas_calls, gpc, gloc, op_calls, opc, oloc,
          topup_balance, provisions, cost_report, job, replies, legacy_keys,
          report>>

\* ----------------------------------------------------------------- helpers
Min(a, b) == IF a <= b THEN a ELSE b
Max(a, b) == IF a >= b THEN a ELSE b

\* a NUMERIC(18, 6) column stores n/d rounded to the nearest millionth
RoundDiv(n, d) == (2 * n + d) \div (2 * d)

\* balances B for which the double Number(formatUnits(B, 6)) * 10 ** 6 lies
\* just below B, so that Math.floor gives B - 1 (IEEE-754 doubles)
FloatShort ==
    {2010000, 4020000, 4020001, 8040000}

\* amountRaw of sendERC20Transfer for amount = Number(formatUnits(B, 6))
amountRaw(B) == IF B \in FloatShort THEN B - 1 ELSE B

\* Number(formatUnits(token_balance - gas_transfer_buffer, 6))
netUsdBalance(token_balance) == token_balance - gas_transfer_buffer

balance_low_trigger(bal) == Min(LowCap, RoundDiv(bal, 5))
balance_critical_trigger(bal) == Min(CriticalCap, RoundDiv(bal, 10))
balance_termination_trigger(bal) == Max(TerminationFloor, RoundDiv(bal, 100))

newPurchase(id, session, bal) ==
    [id |-> id, wallet_id |-> session, checkout_session_id |-> session,
     balance_low_trigger |-> balance_low_trigger(bal),
     balance_critical_trigger |-> balance_critical_trigger(bal),
     balance_termination_trigger |-> balance_termination_trigger(bal)]

\* UNIQUE (wallet_id), UNIQUE (checkout_session_id) and the primary key of
\* customer_purchases: the INSERT is rejected when a row already has the value
UniqueViolation(rows, row) ==
    \E r \in rows : \/ r.wallet_id = row.wallet_id
                    \/ r.checkout_session_id = row.checkout_session_id
                    \/ r.id = row.id

NoLocals ==
    [session |-> NULL, wallet |-> NoRow, chain |-> "none", token_balance |-> -1,
     updated_balance |-> -1, purchase |-> NoPurchase, gas |-> "none",
     sweep |-> "none", swept |-> 0, alerted |-> FALSE, provisioned |-> FALSE,
     after_success |-> FALSE, call |-> 0, error |-> "none",
     gas_sent |-> 0, sweeps_sent |-> 0, outcome |-> "none"]

NoMeterLocals ==
    [path_id |-> NoPurchase, token |-> <<"none", NoPurchase>>, accepted |-> FALSE,
     purchase_id |-> NoPurchase, billed_amount |-> 0, timestamp |-> 0,
     call |-> 0,
     inserted |-> FALSE, wallet |-> NULL, balance_before |-> 0,
     new_balance |-> 0, updated |-> FALSE, reported |-> "none",
     failed_at |-> "none", outcome |-> "none"]

\* an optional Date argument that is not given
NoDate == -1

\* no call of getHistoricalBillingReport yet
NoReport ==
    [asked |-> FALSE, purchase_id |-> NoPurchase, interval |-> "none",
     startDate |-> NoDate, endDate |-> NoDate, records |-> {},
     result |-> <<>>, repeated |-> FALSE]

\* no run of runDailyBillingJob yet
NoJob ==
    [pc |-> "idle", run |-> 0, index |-> 0, outcomes |-> <<>>,
     metered |-> {}, trigger |-> "none"]

NoGasLocals ==
    [to |-> NULL, call |-> 0, native_before |-> 0, nonce |-> -1,
     submitted |-> FALSE, timed_out |-> FALSE, receipt |-> "none",
     error |-> "none", alerted |-> FALSE, outcome |-> "none"]

NoOpLocals ==
    [op |-> "none", session |-> NULL, wallet |-> NoRow,
     purchase |-> NoPurchase, chain |-> "none", token_balance |-> -1,
     tokenBalance |-> -1, persisted |-> FALSE,
     gas |-> "none", sweep |-> "none", swept |-> 0, alerted |-> FALSE,
     gas_sent |-> 0, sweeps_sent |-> 0,
     call |-> 0, error |-> "none", outcome |-> "none"]

\* nothing in flight at the gas tank and at the validate / topup handlers
IdleRequests ==
    /\ gas_txs = {}
    /\ native = [s \in Sessions |-> 0]
    /\ gas_calls = 0
    /\ gpc = [g \in GasProcs |-> "idle"]
    /\ gloc = [g \in GasProcs |-> NoGasLocals]
    /\ op_calls = 0
    /\ opc = [o \in OpProcs |-> "idle"]
    /\ oloc = [o \in OpProcs |-> NoOpLocals]
    /\ topup_balance = [s \in Sessions |-> -1]
    /\ provisions = {}
    /\ job = NoJob
    /\ replies = {}
    /\ report = NoReport

\* the same, in a database made from the current schema text
IdleMore ==
    /\ IdleRequests
    /\ legacy_keys = FALSE
    /\ cost_report = <<>>

Respond(p, l, o) ==
    /\ pc' = [pc EXCEPT ![p] = "idle"]
    /\ loc' = [loc EXCEPT ![p] = [l EXCEPT !.outcome = o]]

Goto(p, l, where) ==
    /\ pc' = [pc EXCEPT ![p] = where]
    /\ loc' = [loc EXCEPT ![p] = l]

\* -------------------------------------------------------------------- Init
Init ==
    /\ checkout_wallets = [s \in Sessions |-> NoRow]
    /\ customer_purchases = {}
    /\ next_purchase = 0
    /\ chain_token = [s \in Sessions |-> 0]
    /\ transfers = {}
    /\ deposits = 0
    /\ calls = 0
    /\ pc = [p \in Procs |-> "idle"]
    /\ loc = [p \in Procs |-> NoLocals]
    /\ finalized = {}
    /\ usage_records = {}
    /\ meter_calls = 0
    /\ mpc = [m \in MeterProcs |-> "idle"]
    /\ mloc = [m \in MeterProcs |-> NoMeterLocals]
    /\ IdleMore

\* ----------------------------------------------------------------- actions
WalletCount == Cardinality({s \in Sessions : checkout_wallets[s].exists})

\* initCheckout: createRandomNewWallet for a fresh checkout session
initCheckout(offramp) ==
    /\ WalletCount - (IF checkout_wallets["s0"].exists THEN 1 ELSE 0) < MaxWallets
    /\ \E i \in 1..Len(NewSessions) :
        /\ ~checkout_wallets[NewSessions[i]].exists
        /\ \A j \in 1..(i - 1) : checkout_wallets[NewSessions[j]].exists
        /\ checkout_wallets' = [checkout_wallets EXCEPT ![NewSessions[i]] =
              [exists |-> TRUE, latest_usd_balance |-> 0, purchase_id |-> NoPurchase,
               offramp_evm_address |-> offramp]]
    /\ UNCHANGED <<customer_purchases, next_purchase, chain_token, transfers,
                   deposits, calls, pc, loc, finalized, meter_vars,
                   gas_vars, ops_vars, aws_vars, http_vars>>

\* the customer sends USDC to the wallet's address
Deposit(s, a) ==
    /\ deposits < MaxDeposits
    /\ checkout_wallets[s].exists
    /\ chain_token' = [chain_token EXCEPT ![s] = @ + a]
    /\ deposits' = deposits + 1
    /\ UNCHANGED <<checkout_wallets, customer_purchases, next_purchase,
                   transfers, calls, pc, loc, finalized, meter_vars,
                   gas_vars, ops_vars, aws_vars, http_vars>>

\* variant: the check of wallet.purchase_id is skipped
alreadyLinkedSkipped(wallet) == FALSE

\* wallet.purchase_id is set: the wallet is already linked to a purchase
alreadyLinked(wallet) == wallet.purchase_id # NoPurchase

\* what a read of the chain meets: the node answers; the node answers but the
\* call of the token contract fails; no node can be reached
ChainStates == {"ok", "token_read_failed", "unreachable"}

\* WalletService.getTokenBalance: balanceOf of the token, and 0 from the catch
\* around the whole body whatever made a request throw
getTokenBalance(chain, balance) == IF chain = "ok" THEN balance ELSE 0

\* variant: the balance is not compared with the minimum
insufficientFundsUnchecked(token_balance) == FALSE

\* token_balance < minTargetBalance
insufficientFunds(token_balance) == token_balance < minTargetBalance

\* finalizeCheckout, up to its first await and the two checks on its result:
\* getCheckoutWalletByCheckoutSessionID, !wallet, wallet.purchase_id
FinalizeGetWallet(p, s) ==
    /\ pc[p] = "idle"
    /\ calls < MaxCalls
    /\ calls' = calls + 1
    /\ LET wallet == checkout_wallets[s]
           l == [NoLocals EXCEPT !.session = s, !.wallet = wallet,
                                 !.call = calls + 1,
                                 !.after_success = (s \in finalized)]
       IN  IF ~wallet.exists THEN Respond(p, l, "not_found")
           ELSE IF alreadyLinked(wallet) THEN Respond(p, l, "already_linked")
           ELSE Goto(p, l, "balance")
    /\ UNCHANGED <<checkout_wallets, customer_purchases, next_purchase,
                   chain_token, transfers, deposits, finalized, meter_vars,
                   gas_vars, ops_vars, aws_vars, http_vars>>

\* WalletService.getTokenBalance (0 when the read fails) and the check
\* against minTargetBalance
FinalizeGetBalance(p) ==
    /\ pc[p] = "balance"
    /\ \E chain \in ChainStates :
        LET token_balance == getTokenBalance(chain, chain_token[loc[p].session])
            l == [loc[p] EXCEPT !.chain = chain,
                                !.token_balance = token_balance]
        IN  IF insufficientFunds(token_balance)
            THEN Respond(p, l, "insufficient")
            ELSE Goto(p, l, "update")
    /\ UNCHANGED <<checkout_wallets, customer_purchases, next_purchase,
                   chain_token, transfers, deposits, calls, finalized, meter_vars,
                   gas_vars, ops_vars, aws_vars, http_vars>>

\* variant: the UPDATE also clears purchase_id
updateCheckoutWalletUnlink(table, id, balance) ==
    IF table[id].exists
    THEN [table EXCEPT ![id].latest_usd_balance = balance,
                       ![id].purchase_id = NoPurchase]
    ELSE table

\* variant: the row is deleted
updateCheckoutWalletDropRow(table, id, balance) ==
    [table EXCEPT ![id] = NoRow]

\* updateCheckoutWallet(wallet.id, {latest_usd_balance}): the row after the
\* UPDATE, NoRow when no row has the id
updateCheckoutWallet(table, id, balance) ==
    IF table[id].exists
    THEN [table EXCEPT ![id].latest_usd_balance = balance]
    ELSE table

\* variant: the offramp address is not looked at
offrampConfiguredUnchecked(wallet) == TRUE

\* !wallet.offramp_evm_address answers success: false
offrampConfigured(wallet) == wallet.offramp_evm_address

FinalizeUpdateWallet(p) ==
    /\ pc[p] = "update"
    /\ LET s == loc[p].session
           bal == netUsdBalance(loc[p].token_balance)
           l == [loc[p] EXCEPT !.updated_balance = bal]
       IN  /\ checkout_wallets' = updateCheckoutWallet(checkout_wallets, s, bal)
           /\ IF ~checkout_wallets[s].exists
              THEN Respond(p, loc[p], "update_failed")
              ELSE IF ~offrampConfigured(loc[p].wallet)
              THEN Respond(p, l, "no_offramp")
              ELSE Goto(p, l, "gas")
    /\ UNCHANGED <<customer_purchases, next_purchase, chain_token, transfers,
                   deposits, calls, finalized, meter_vars,
                   gas_vars, ops_vars, aws_vars, http_vars>>

\* variant: the status of the gas receipt is not looked at
gasFundedUnchecked(receipt) == receipt # "threw"

\* gasReceipt.status === "success" (anything else is thrown into the catch)
gasFunded(receipt) == receipt = "success"

\* variant: a failed transaction is sent once more
retryAfterFailureOnce(sent) == sent < 2

\* the catch blocks around sendFromGasTank and sendERC20Transfer return the
\* error response: the transaction is not sent again
retryAfterFailure(sent) == FALSE

\* sendFromGasTank: a receipt (success or reverted) or an exception; anything
\* but a successful receipt alerts the vendor and ends the call
FinalizeSendGas(p) ==
    /\ pc[p] = "gas"
    /\ \E receipt \in {"success", "reverted", "threw"} :
        LET l == [loc[p] EXCEPT !.gas = receipt, !.gas_sent = @ + 1]
        IN  IF gasFunded(receipt)
            THEN Goto(p, l, "create")
            ELSE IF retryAfterFailure(l.gas_sent)
            THEN Goto(p, l, "gas")
            ELSE Respond(p, [l EXCEPT !.alerted = TRUE], "gas_failed")
    /\ UNCHANGED <<checkout_wallets, customer_purchases, next_purchase,
                   chain_token, transfers, deposits, calls, finalized, meter_vars,
                   gas_vars, ops_vars, aws_vars, http_vars>>

\* variant: customer_purchases without its UNIQUE constraints
createCustomerPurchaseNoUnique(rows, row) == rows \cup {row}

\* createCustomerPurchase: INSERT INTO customer_purchases; a rejected INSERT
\* throws into the handler's outer catch, which answers 500
createCustomerPurchase(rows, row) ==
    IF UniqueViolation(rows, row) THEN rows ELSE rows \cup {row}

FinalizeCreatePurchase(p) ==
    /\ pc[p] = "create"
    /\ next_purchase' = next_purchase + 1
    /\ \E db_ok \in BOOLEAN :
        LET row == newPurchase(next_purchase + 1, loc[p].session,
                               loc[p].updated_balance)
            rows == IF db_ok THEN createCustomerPurchase(customer_purchases, row)
                    ELSE customer_purchases
        IN  /\ customer_purchases' = rows
            /\ IF row \in rows /\ row \notin customer_purchases
               THEN Goto(p, [loc[p] EXCEPT !.purchase = row.id], "sweep")
               ELSE Respond(p, [loc[p] EXCEPT !.error =
                                   IF db_ok THEN "unique_violation"
                                   ELSE "persistence"],
                            "internal_error")
    /\ UNCHANGED <<checkout_wallets, chain_token, transfers, deposits, calls,
                   finalized, meter_vars,
                   gas_vars, ops_vars, aws_vars, http_vars>>

\* variant: the buffer is taken off the swept amount
amountToSweepLessBuffer(token_balance) ==
    amountRaw(netUsdBalance(token_balance))

\* amountToSweep: the amount handed to sendERC20Transfer, in raw units
amountToSweep(token_balance) == amountRaw(token_balance)

\* variant: a reverted receipt is not looked at
sweepSucceededUnchecked(receipt) == receipt # "threw"

\* the call goes on to the provisioning: sendERC20Transfer has not thrown and
\* transferReceipt.status === "success" (so transferTxHash is set)
sweepSucceeded(receipt) == receipt = "success"

\* sendERC20Transfer: throws when the wallet holds less than amountRaw, else
\* a receipt (success moves the tokens) or an exception
FinalizeSweep(p) ==
    /\ pc[p] = "sweep"
    /\ LET s == loc[p].session
           amount == amountToSweep(loc[p].token_balance)
       IN  \E receipt \in {"success", "reverted", "threw"} :
            LET r == IF chain_token[s] < amount THEN "threw" ELSE receipt
                l == [loc[p] EXCEPT !.sweep = r,
                                    !.sweeps_sent = @ + 1,
                                    !.swept = IF r = "success" THEN amount ELSE 0]
            IN  /\ IF r = "success"
                   THEN /\ chain_token' = [chain_token EXCEPT ![s] = @ - amount]
                        /\ transfers' = transfers \cup
                               {[op |-> "finalize", call |-> loc[p].call,
                                 from |-> s, gas |-> loc[p].gas,
                                 amount |-> amount,
                                 observed |-> loc[p].token_balance]}
                   ELSE UNCHANGED <<chain_token, transfers>>
                /\ IF sweepSucceeded(r)
                   THEN Goto(p, l, "provision")
                   ELSE IF retryAfterFailure(l.sweeps_sent)
                   THEN Goto(p, l, "sweep")
                   ELSE IF r = "reverted"
                   THEN Respond(p, l, "sweep_reverted")
                   ELSE Respond(p, [l EXCEPT !.alerted = TRUE], "sweep_failed")
    /\ UNCHANGED <<checkout_wallets, customer_purchases, next_purchase,
                   deposits, calls, finalized, meter_vars,
                   gas_vars, ops_vars, aws_vars, http_vars>>

\* deployNewS3Bucket for the purchase created, then the success response; an
\* exception goes to the outer catch
FinalizeProvision(p) ==
    /\ pc[p] = "provision"
    /\ provisions' = provisions \cup
          {[purchase_id |-> loc[p].purchase, call |-> loc[p].call,
            sweep |-> loc[p].sweep]}
    /\ \E deployed \in BOOLEAN :
        IF deployed
        THEN /\ Respond(p, [loc[p] EXCEPT !.provisioned = TRUE], "success")
             /\ finalized' = finalized \cup {loc[p].session}
        ELSE /\ Respond(p, [loc[p] EXCEPT !.error = "provision"],
                        "internal_error")
             /\ UNCHANGED finalized
    /\ UNCHANGED <<checkout_wallets, customer_purchases, next_purchase,
                   chain_token, transfers, deposits, calls, meter_vars,
                   gas_vars, ops_vars, cost_report, job, http_vars>>

finalizeCheckout(p) ==
    \/ \E s \in Sessions : FinalizeGetWallet(p, s)
    \/ FinalizeGetBalance(p)
    \/ FinalizeUpdateWallet(p)
    \/ FinalizeSendGas(p)
    \/ FinalizeCreatePurchase(p)
    \/ FinalizeSweep(p)
    \/ FinalizeProvision(p)

\* ---------------------------------------------------------------- metering
\* the row of usage_records that the call inserts
usageRecord(l) ==
    [id |-> l.call, purchase_id |-> l.purchase_id,
     timestamp |-> l.timestamp, billed_amount |-> l.billed_amount]

\* variant: the wallet is looked up through the purchase's wallet_id
getCheckoutWalletByPurchaseIdViaPurchase(purchase_id) ==
    {s \in Sessions : /\ checkout_wallets[s].exists
                      /\ \E r \in customer_purchases :
                            r.id = purchase_id /\ r.wallet_id = s}

\* getCheckoutWalletByPurchaseId: the sessions whose wallet row has the
\* purchase_id (purchase_id is UNIQUE: at most one)
getCheckoutWalletByPurchaseId(purchase_id) ==
    {s \in Sessions : /\ checkout_wallets[s].exists
                      /\ checkout_wallets[s].purchase_id = purchase_id}

\* getCustomerPurchaseById
getCustomerPurchaseById(purchase_id) ==
    {r \in customer_purchases : r.id = purchase_id}

\* variant: the chain tests the mildest threshold first
triggerReportedMildestFirst(latest_usd_balance, purchase) ==
    IF latest_usd_balance <= purchase.balance_low_trigger
    THEN "low"
    ELSE IF latest_usd_balance <= purchase.balance_critical_trigger
    THEN "critical"
    ELSE IF latest_usd_balance <= purchase.balance_termination_trigger
    THEN "termination"
    ELSE "none"

\* the trigger checks after the UPDATE: an if / else-if chain
triggerReported(latest_usd_balance, purchase) ==
    IF latest_usd_balance <= purchase.balance_termination_trigger
    THEN "termination"
    ELSE IF latest_usd_balance <= purchase.balance_critical_trigger
    THEN "critical"
    ELSE IF latest_usd_balance <= purchase.balance_low_trigger
    THEN "low"
    ELSE "none"

\* variant: the INSERT runs outside the transaction and is committed at once
afterInsertAutocommit(rows, row) == rows \cup {row}

\* variant: the UPDATE subtracts the amount twice
deductBalanceTwice(latest_usd_balance, billed_amount) ==
    latest_usd_balance - 2 * billed_amount

\* SET latest_usd_balance = latest_usd_balance - $2
deductBalance(latest_usd_balance, billed_amount) ==
    latest_usd_balance - billed_amount

\* usage_records as other connections see it once the INSERT has run on
\* the transaction's client: unchanged until COMMIT
afterInsert(rows, row) == rows

\* the wallet's committed balance once the UPDATE has run on the
\* transaction's client: unchanged until COMMIT
afterUpdate(committed, new_balance) == committed

\* the catch block: ROLLBACK, the error is rethrown
Rollback(m, at) ==
    /\ mpc' = [mpc EXCEPT ![m] = "idle"]
    /\ mloc' = [mloc EXCEPT ![m].failed_at = at, ![m].outcome = "error"]

\* pool.connect() and BEGIN
MeterBegin(m, purchase_id, billed_amount) ==
    /\ mpc[m] = "idle"
    /\ meter_calls < MaxMeterCalls
    /\ meter_calls' = meter_calls + 1
    /\ mpc' = [mpc EXCEPT ![m] = "insert"]
    /\ mloc' = [mloc EXCEPT ![m] =
          [NoMeterLocals EXCEPT !.purchase_id = purchase_id,
                                !.billed_amount = billed_amount,
                                !.call = meter_calls + 1]]
    /\ UNCHANGED <<usage_records, checkout_vars,
                   gas_vars, ops_vars, aws_vars, http_vars>>

\* 1. INSERT INTO usage_records; fk_purchase_usage rejects a purchase_id
\* that no row of customer_purchases has
MeterInsert(m) ==
    /\ mpc[m] = "insert"
    /\ IF getCustomerPurchaseById(mloc[m].purchase_id) = {}
       THEN /\ Rollback(m, "insert")
            /\ UNCHANGED usage_records
       ELSE /\ usage_records' = afterInsert(usage_records, usageRecord(mloc[m]))
            /\ mpc' = [mpc EXCEPT ![m] = "wallet"]
            /\ mloc' = [mloc EXCEPT ![m].inserted = TRUE]
    /\ UNCHANGED <<meter_calls, checkout_vars,
                   gas_vars, ops_vars, aws_vars, http_vars>>

\* fetch the wallet; none: throw
MeterFetchWallet(m) ==
    /\ mpc[m] = "wallet"
    /\ LET found == getCheckoutWalletByPurchaseId(mloc[m].purchase_id)
       IN  IF found = {}
           THEN Rollback(m, "wallet")
           ELSE /\ mpc' = [mpc EXCEPT ![m] = "purchase"]
                /\ mloc' = [mloc EXCEPT ![m].wallet = CHOOSE s \in found : TRUE]
    /\ UNCHANGED <<usage_records, meter_calls, checkout_vars,
                   gas_vars, ops_vars, aws_vars, http_vars>>

\* fetch the purchase; none: throw
MeterFetchPurchase(m) ==
    /\ mpc[m] = "purchase"
    /\ IF getCustomerPurchaseById(mloc[m].purchase_id) = {}
       THEN Rollback(m, "purchase")
       ELSE /\ mpc' = [mpc EXCEPT ![m] = "update"]
            /\ UNCHANGED mloc
    /\ UNCHANGED <<usage_records, meter_calls, checkout_vars,
                   gas_vars, ops_vars, aws_vars, http_vars>>

\* variant: the UPDATE does not wait for the row's lock
rowLockedByNone(m, w) == FALSE

\* another transaction has updated the wallet's row and not yet ended
rowLocked(m, w) ==
    \E o \in MeterProcs \ {m} : mpc[o] = "commit" /\ mloc[o].wallet = w

\* 2. UPDATE checkout_wallets SET latest_usd_balance = latest_usd_balance - $2
\* RETURNING latest_usd_balance, and the trigger checks on the returned value.
\* The UPDATE takes the row's lock, held until COMMIT or ROLLBACK.
MeterUpdate(m) ==
    /\ mpc[m] = "update"
    /\ ~rowLocked(m, mloc[m].wallet)
    /\ LET w == mloc[m].wallet
           balance == checkout_wallets[w].latest_usd_balance
           new_balance == deductBalance(balance, mloc[m].billed_amount)
           purchase == CHOOSE r \in customer_purchases :
                           r.id = mloc[m].purchase_id
       IN  /\ checkout_wallets' = [checkout_wallets EXCEPT
                 ![w].latest_usd_balance = afterUpdate(balance, new_balance)]
           /\ mloc' = [mloc EXCEPT ![m].balance_before = balance,
                                   ![m].new_balance = new_balance,
                                   ![m].updated = TRUE,
                                   ![m].reported =
                                       triggerReported(new_balance, purchase)]
    /\ mpc' = [mpc EXCEPT ![m] = "commit"]
    /\ UNCHANGED <<usage_records, meter_calls, customer_purchases,
                   next_purchase, chain_token, transfers, deposits, calls, pc,
                   loc, finalized,
                   gas_vars, ops_vars, aws_vars, http_vars>>

\* variant: the row replaces the purchase's earlier rows
insertedIntoReplacing(rows, row) ==
    {r \in rows : r.purchase_id # row.purchase_id} \cup {row}

\* INSERT INTO usage_records ... RETURNING *: one new row, with the next id
insertedInto(rows, row) == rows \cup {row}

\* COMMIT: the INSERT and the UPDATE become visible together
MeterCommit(m) ==
    /\ mpc[m] = "commit"
    /\ usage_records' = insertedInto(usage_records, usageRecord(mloc[m]))
    /\ checkout_wallets' = [checkout_wallets EXCEPT
          ![mloc[m].wallet].latest_usd_balance = mloc[m].new_balance]
    /\ mpc' = [mpc EXCEPT ![m] = "idle"]
    /\ mloc' = [mloc EXCEPT ![m].outcome = "ok"]
    /\ UNCHANGED <<meter_calls, customer_purchases, next_purchase, chain_token,
                   transfers, deposits, calls, pc, loc, finalized,
                   gas_vars, ops_vars, aws_vars, http_vars>>

\* a query of the transaction fails (the statement about to run throws)
MeterFail(m) ==
    /\ mpc[m] \in {"insert", "wallet", "purchase", "update", "commit"}
    /\ Rollback(m, mpc[m])
    /\ UNCHANGED <<usage_records, meter_calls, checkout_vars,
                   gas_vars, ops_vars, aws_vars, http_vars>>

addUsageRecordAndDeductBalance(m) ==
    \/ \E purchase_id \in MeteredPurchases, billed_amount \in BilledAmounts :
          MeterBegin(m, purchase_id, billed_amount)
    \/ MeterInsert(m)
    \/ MeterFetchWallet(m)
    \/ MeterFetchPurchase(m)
    \/ MeterUpdate(m)
    \/ MeterCommit(m)
    \/ MeterFail(m)

\* ------------------------------------------------------------ database rows
\* a wallet that is linked to purchase 0, the state recordUsage works on
SeededTables(opening, balance) ==
    /\ checkout_wallets = [s \in Sessions |->
          IF s = "s0"
          THEN [exists |-> TRUE, latest_usd_balance |-> balance,
                purchase_id |-> 0, offramp_evm_address |-> TRUE]
          ELSE NoRow]
    /\ customer_purchases = {newPurchase(0, "s0", opening)}
    /\ next_purchase = 0

\* the same, and a purchase as finalizeCheckout leaves it: wallet "s1", not
\* linked, referenced by purchase 1
MeterTables(opening, balance) ==
    /\ checkout_wallets = [s \in Sessions |->
          IF s = "s0"
          THEN [exists |-> TRUE, latest_usd_balance |-> balance,
                purchase_id |-> 0, offramp_evm_address |-> TRUE]
          ELSE IF s = "s1"
          THEN [exists |-> TRUE, latest_usd_balance |-> balance,
                purchase_id |-> NoPurchase, offramp_evm_address |-> TRUE]
          ELSE NoRow]
    /\ customer_purchases = {newPurchase(0, "s0", opening),
                             newPurchase(1, "s1", balance)}
    /\ next_purchase = 1

Idle ==
    /\ chain_token = [s \in Sessions |-> 0]
    /\ transfers = {}
    /\ deposits = 0
    /\ calls = 0
    /\ pc = [p \in Procs |-> "idle"]
    /\ loc = [p \in Procs |-> NoLocals]
    /\ finalized = {}
    /\ usage_records = {}
    /\ meter_calls = 0
    /\ mpc = [m \in MeterProcs |-> "idle"]
    /\ mloc = [m \in MeterProcs |-> NoMeterLocals]
    /\ IdleMore

InitSeeded ==
    /\ LET opening == netUsdBalance(12000000)
       IN  SeededTables(opening, opening)
    /\ Idle

\* wallet "s0" linked to its purchase 0, wallet "s1" as initCheckout makes it
OpsTables(opening) ==
    /\ checkout_wallets = [s \in Sessions |->
          IF s = "s0"
          THEN [exists |-> TRUE, latest_usd_balance |-> opening,
                purchase_id |-> 0, offramp_evm_address |-> TRUE]
          ELSE IF s = "s1"
          THEN [exists |-> TRUE, latest_usd_balance |-> 0,
                purchase_id |-> NoPurchase, offramp_evm_address |-> TRUE]
          ELSE NoRow]
    /\ customer_purchases = {newPurchase(0, "s0", opening)}
    /\ next_purchase = 0

\* wallet "s0" linked to purchase 0 and holding a later deposit or nothing,
\* wallet "s1" created by initCheckout and holding a deposit
InitOps ==
    /\ \E topup \in OpsTopups, deposit \in OpsDeposits :
        /\ OpsTables(netUsdBalance(12000000))
        /\ chain_token = [s \in Sessions |->
                             IF s = "s0" THEN topup
                             ELSE IF s = "s1" THEN deposit ELSE 0]
    /\ transfers = {}
    /\ deposits = 0
    /\ calls = 0
    /\ pc = [p \in Procs |-> "idle"]
    /\ loc = [p \in Procs |-> NoLocals]
    /\ finalized = {}
    /\ usage_records = {}
    /\ meter_calls = 0
    /\ mpc = [m \in MeterProcs |-> "idle"]
    /\ mloc = [m \in MeterProcs |-> NoMeterLocals]
    /\ IdleMore

InitMeter ==
    /\ \E opening \in SeedOpening, balance \in SeedBalances :
          MeterTables(opening, balance)
    /\ Idle

\* ------------------------------------------------------- validate, topup
OpRespond(o, l, outcome) ==
    /\ opc' = [opc EXCEPT ![o] = "idle"]
    /\ oloc' = [oloc EXCEPT ![o] = [l EXCEPT !.outcome = outcome]]

OpGoto(o, l, where) ==
    /\ opc' = [opc EXCEPT ![o] = where]
    /\ oloc' = [oloc EXCEPT ![o] = l]

\* validateCheckout: getCheckoutWalletByCheckoutSessionID, !wallet
ValidateGetWallet(o, s) ==
    /\ opc[o] = "idle"
    /\ op_calls < MaxOpCalls
    /\ op_calls' = op_calls + 1
    /\ LET wallet == checkout_wallets[s]
           l == [NoOpLocals EXCEPT !.op = "validate", !.session = s,
                                   !.wallet = wallet, !.call = op_calls + 1]
       IN  IF ~wallet.exists THEN OpRespond(o, l, "not_found")
           ELSE OpGoto(o, l, "v_balance")
    /\ UNCHANGED <<topup_balance, checkout_vars, meter_vars, gas_vars, aws_vars, http_vars>>

\* getTokenBalance and the check against minTargetBalance: below it the
\* handler answers at once
ValidateGetBalance(o) ==
    /\ opc[o] = "v_balance"
    /\ \E chain \in ChainStates :
        LET token_balance == getTokenBalance(chain, chain_token[oloc[o].session])
            l == [oloc[o] EXCEPT !.chain = chain,
                                 !.token_balance = token_balance]
        IN  IF insufficientFunds(token_balance)
            THEN OpRespond(o, l, "insufficient")
            ELSE OpGoto(o, l, "v_update")
    /\ UNCHANGED <<op_calls, topup_balance, checkout_vars, meter_vars, gas_vars, aws_vars, http_vars>>

\* updateCheckoutWallet(wallet.id, {latest_usd_balance, updated_at}); a
\* failed query goes to the catch (500)
ValidateUpdate(o) ==
    /\ opc[o] = "v_update"
    /\ \E db_ok \in BOOLEAN :
        IF db_ok
        THEN /\ checkout_wallets' = updateCheckoutWallet(checkout_wallets,
                    oloc[o].session, oloc[o].token_balance)
             /\ OpRespond(o, [oloc[o] EXCEPT !.persisted = TRUE], "success")
        ELSE /\ UNCHANGED checkout_wallets
             /\ OpRespond(o, [oloc[o] EXCEPT !.error = "persistence"],
                          "internal_error")
    /\ UNCHANGED <<op_calls, topup_balance, customer_purchases, next_purchase,
                   chain_token, transfers, deposits, calls, pc, loc, finalized,
                   meter_vars, gas_vars, aws_vars, http_vars>>

validateCheckout(o) ==
    \/ \E s \in Sessions : ValidateGetWallet(o, s)
    \/ ValidateGetBalance(o)
    \/ ValidateUpdate(o)

\* getCustomerPurchaseByCheckoutSessionID
getCustomerPurchaseByCheckoutSessionID(s) ==
    {r \in customer_purchases : r.checkout_session_id = s}

\* the outer catch of topupCheckout: alert, 500
TopupCatch(o, l) ==
    OpRespond(o, [l EXCEPT !.alerted = TRUE, !.error = "persistence"],
              "internal_error")

\* topupCheckout: the wallet of the session, 404 without one; sweep_tokens
\* of the request names USDC or nothing
TopupGetWallet(o, s, sweep_usdc) ==
    /\ opc[o] = "idle"
    /\ op_calls < MaxOpCalls
    /\ op_calls' = op_calls + 1
    /\ LET wallet == checkout_wallets[s]
           l == [NoOpLocals EXCEPT !.op = "topup", !.session = s,
                                   !.wallet = wallet, !.call = op_calls + 1,
                                   !.sweep = IF sweep_usdc THEN "asked"
                                             ELSE "none"]
       IN  IF ~wallet.exists THEN OpRespond(o, l, "not_found")
           ELSE OpGoto(o, l, "t_purchase")
    /\ UNCHANGED <<topup_balance, checkout_vars, meter_vars, gas_vars, aws_vars, http_vars>>

\* the purchase of the session, 404 without one
TopupGetPurchase(o) ==
    /\ opc[o] = "t_purchase"
    /\ \E db_ok \in BOOLEAN :
        LET found == getCustomerPurchaseByCheckoutSessionID(oloc[o].session)
        IN  IF ~db_ok THEN TopupCatch(o, oloc[o])
            ELSE IF found = {} THEN OpRespond(o, oloc[o], "no_purchase")
            ELSE OpGoto(o, [oloc[o] EXCEPT !.purchase =
                               (CHOOSE r \in found : TRUE).id], "t_balance")
    /\ UNCHANGED <<op_calls, topup_balance, checkout_vars, meter_vars, gas_vars, aws_vars, http_vars>>

\* currentWalletBalance and the check against minTargetBalance
TopupGetBalance(o) ==
    /\ opc[o] = "t_balance"
    /\ \E chain \in ChainStates :
        LET token_balance == getTokenBalance(chain, chain_token[oloc[o].session])
            l == [oloc[o] EXCEPT !.chain = chain,
                                 !.token_balance = token_balance]
        IN  IF insufficientFunds(token_balance)
            THEN OpRespond(o, l, "insufficient")
            ELSE OpGoto(o, l, "t_gas")
    /\ UNCHANGED <<op_calls, topup_balance, checkout_vars, meter_vars, gas_vars, aws_vars, http_vars>>

\* sendFromGasTank; then the check of wallet.offramp_evm_address; then the
\* loop over sweep_tokens is entered or skipped
TopupSendGas(o) ==
    /\ opc[o] = "t_gas"
    /\ \E receipt \in {"success", "reverted", "threw"} :
        LET l == [oloc[o] EXCEPT !.gas = receipt, !.gas_sent = @ + 1]
        IN  IF ~gasFunded(receipt) /\ retryAfterFailure(l.gas_sent)
            THEN OpGoto(o, l, "t_gas")
            ELSE IF ~gasFunded(receipt)
            THEN OpRespond(o, [l EXCEPT !.alerted = TRUE], "gas_failed")
            ELSE IF ~oloc[o].wallet.offramp_evm_address
            THEN OpRespond(o, l, "no_offramp")
            ELSE IF oloc[o].sweep = "asked"
            THEN OpGoto(o, l, "t_token")
            ELSE OpGoto(o, l, "t_update")
    /\ UNCHANGED <<op_calls, topup_balance, checkout_vars, meter_vars, gas_vars, aws_vars, http_vars>>

\* in the loop: getTokenBalance of the token; nothing to sweep at 0
TopupReadToken(o) ==
    /\ opc[o] = "t_token"
    /\ \E chain \in ChainStates :
        LET tokenBalance == getTokenBalance(chain, chain_token[oloc[o].session])
        IN  IF tokenBalance > 0
            THEN OpGoto(o, [oloc[o] EXCEPT !.tokenBalance = tokenBalance],
                        "t_sweep")
            ELSE OpGoto(o, [oloc[o] EXCEPT !.sweep = "skipped"], "t_update")
    /\ UNCHANGED <<op_calls, topup_balance, checkout_vars, meter_vars, gas_vars, aws_vars, http_vars>>

\* in the loop: sendERC20Transfer of the balance read; an exception or a
\* reverted receipt alerts and answers 500
TopupSweep(o) ==
    /\ opc[o] = "t_sweep"
    /\ LET s == oloc[o].session
           amount == amountToSweep(oloc[o].tokenBalance)
       IN  \E receipt \in {"success", "reverted", "threw"} :
            LET r == IF chain_token[s] < amount THEN "threw" ELSE receipt
                l == [oloc[o] EXCEPT !.sweep = r, !.sweeps_sent = @ + 1]
            IN  IF r = "success"
                THEN /\ chain_token' = [chain_token EXCEPT ![s] = @ - amount]
                     /\ transfers' = transfers \cup
                            {[op |-> "topup", call |-> oloc[o].call, from |-> s,
                              gas |-> oloc[o].gas, amount |-> amount,
                              observed |-> oloc[o].tokenBalance]}
                     /\ OpGoto(o, [l EXCEPT !.swept = amount], "t_update")
                ELSE /\ UNCHANGED <<chain_token, transfers>>
                     /\ IF retryAfterFailure(l.sweeps_sent)
                        THEN OpGoto(o, l, "t_sweep")
                        ELSE OpRespond(o, [l EXCEPT !.alerted = TRUE],
                                       "sweep_failed")
    /\ UNCHANGED <<op_calls, topup_balance, checkout_wallets, customer_purchases,
                   next_purchase, deposits, calls, pc, loc, finalized,
                   meter_vars, gas_vars, aws_vars, http_vars>>

\* updateCustomerPurchase(customerPurchase.id, {balance: netUsdBalance}): the
\* query throws (outer catch), or updates no row, or the row
TopupUpdatePurchase(o) ==
    /\ opc[o] = "t_update"
    /\ \E result \in {"threw", "no_row", "row"} :
        IF result = "row"
        THEN /\ topup_balance' = [topup_balance EXCEPT ![oloc[o].session] =
                                     netUsdBalance(oloc[o].token_balance)]
             /\ OpRespond(o, oloc[o], "success")
        ELSE /\ UNCHANGED topup_balance
             /\ IF result = "threw"
                THEN TopupCatch(o, oloc[o])
                ELSE OpRespond(o, [oloc[o] EXCEPT !.alerted = TRUE],
                               "update_failed")
    /\ UNCHANGED <<op_calls, checkout_vars, meter_vars, gas_vars, aws_vars, http_vars>>

topupCheckout(o) ==
    \/ \E s \in Sessions, sweep_usdc \in BOOLEAN : TopupGetWallet(o, s, sweep_usdc)
    \/ TopupGetPurchase(o)
    \/ TopupGetBalance(o)
    \/ TopupSendGas(o)
    \/ TopupReadToken(o)
    \/ TopupSweep(o)
    \/ TopupUpdatePurchase(o)

\* ---------------------------------------------------------------- gas tank
\* the wallet addresses that finalize and topup fund
GasWallets == {"s1", "s2"}

\* the account's transaction count with block tag "pending", which
\* walletClient.sendTransaction takes as the nonce of the new transaction
pendingNonce == Cardinality(gas_txs)

\* the node accepts a transaction only under a nonce no transaction of the
\* account it holds has
nonceFree(nonce) == \A tx \in gas_txs : tx.nonce # nonce

\* the catch of sendFromGasTank rethrows; the caller's catch alerts the
\* vendor and answers 500
GasThrow(g, l, error) ==
    /\ gpc' = [gpc EXCEPT ![g] = "idle"]
    /\ gloc' = [gloc EXCEPT ![g] = [l EXCEPT !.error = error,
                                             !.alerted = TRUE,
                                             !.outcome = "gas_failed"]]

\* finalize and topup call sendFromGasTank(wallet.evm_address) whatever the
\* wallet holds
GasCall(g, w) ==
    /\ gpc[g] = "idle"
    /\ gas_calls < MaxGasCalls
    /\ gas_calls' = gas_calls + 1
    /\ gloc' = [gloc EXCEPT ![g] = [NoGasLocals EXCEPT
                    !.to = w, !.call = gas_calls + 1,
                    !.native_before = native[w]]]
    /\ gpc' = [gpc EXCEPT ![g] = "nonce"]
    /\ UNCHANGED <<gas_txs, native, checkout_vars, meter_vars, ops_vars, aws_vars, http_vars>>

\* walletClient.sendTransaction, first request: the nonce
GasGetNonce(g) ==
    /\ gpc[g] = "nonce"
    /\ gloc' = [gloc EXCEPT ![g].nonce = pendingNonce]
    /\ gpc' = [gpc EXCEPT ![g] = "submit"]
    /\ UNCHANGED <<gas_txs, native, gas_calls, checkout_vars, meter_vars,
                   ops_vars, aws_vars, http_vars>>

\* walletClient.sendTransaction, second request: the signed transaction is
\* submitted; the request fails, or the node refuses the nonce, or the
\* transaction is pending
GasSubmit(g) ==
    /\ gpc[g] = "submit"
    /\ \E rpc_ok \in BOOLEAN :
        IF rpc_ok /\ nonceFree(gloc[g].nonce)
        THEN /\ gas_txs' = gas_txs \cup
                    {[nonce |-> gloc[g].nonce, to |-> gloc[g].to,
                      call |-> gloc[g].call,
                      native_before |-> native[gloc[g].to],
                      status |-> "pending"]}
             /\ gloc' = [gloc EXCEPT ![g].submitted = TRUE]
             /\ gpc' = [gpc EXCEPT ![g] = "wait"]
        ELSE /\ GasThrow(g, gloc[g], IF rpc_ok THEN "nonce" ELSE "rpc")
             /\ UNCHANGED gas_txs
    /\ UNCHANGED <<native, gas_calls, checkout_vars, meter_vars, ops_vars, aws_vars, http_vars>>

\* the chain includes the account's pending transaction with the lowest nonce
GasMine ==
    \E tx \in gas_txs, status \in {"success", "reverted"} :
        /\ tx.status = "pending"
        /\ \A o \in gas_txs : o.nonce < tx.nonce => o.status # "pending"
        /\ gas_txs' = (gas_txs \ {tx}) \cup {[tx EXCEPT !.status = status]}
        /\ native' = IF status = "success"
                     THEN [native EXCEPT ![tx.to] = @ + GAS_TANK_AMOUNT_ETH]
                     ELSE native
        /\ UNCHANGED <<gas_calls, gpc, gloc, checkout_vars, meter_vars,
                       ops_vars, aws_vars, http_vars>>

\* publicClient.waitForTransactionReceipt: the receipt of the included
\* transaction, or an exception (the wait times out); the caller goes on
\* after a successful receipt only
GasWait(g) ==
    /\ gpc[g] = "wait"
    /\ \E timeout \in BOOLEAN :
        IF timeout
        THEN GasThrow(g, [gloc[g] EXCEPT !.timed_out = TRUE], "wait")
        ELSE \E tx \in gas_txs :
                /\ tx.call = gloc[g].call
                /\ tx.status # "pending"
                /\ LET l == [gloc[g] EXCEPT !.receipt = tx.status]
                   IN  IF tx.status = "success"
                       THEN /\ gpc' = [gpc EXCEPT ![g] = "idle"]
                            /\ gloc' = [gloc EXCEPT ![g] =
                                           [l EXCEPT !.outcome = "success"]]
                       ELSE GasThrow(g, l, "reverted")
    /\ UNCHANGED <<gas_txs, native, gas_calls, checkout_vars, meter_vars,
                   ops_vars, aws_vars, http_vars>>

sendFromGasTank(g) ==
    \/ \E w \in GasWallets : GasCall(g, w)
    \/ GasGetNonce(g)
    \/ GasSubmit(g)
    \/ GasWait(g)

\* ------------------------------------------------------ meter-usage route
\* vendor_billing_api_key of a purchase: uuidv4(), one per purchase
vendor_billing_api_key(id) == <<"vendor_billing_api_key", id>>

\* purchase.vendor_update_billing_api_key: undefined unless the table has the
\* column, which then holds the purchase's usage-reporting key
vendor_update_billing_api_key(id) ==
    IF legacy_keys THEN vendor_billing_api_key(id) ELSE <<"undefined", id>>

\* extractToken of a request without an Authorization header or auth query
NoToken == <<"none", NoPurchase>>

\* the bearer tokens a caller sends: the key of purchase 0, of purchase 1, a
\* key of no purchase
Tokens == {vendor_billing_api_key(id) : id \in {0, 1, NoPurchase}}

\* the pre-handler of the route lets the request through
authenticateVendorUpdateBilling(path_id, token) ==
    /\ token # NoToken
    /\ getCustomerPurchaseById(path_id) # {}
    /\ token = vendor_update_billing_api_key(path_id)

\* the handler's own check: the purchase of the path and its key
meterUsageAuthorized(path_id, token) ==
    /\ getCustomerPurchaseById(path_id) # {}
    /\ token # NoToken
    /\ token = vendor_billing_api_key(path_id)

\* recordUsage(request.body): the purchase_id of the stored record is the
\* purchase_id member of the request body
recordedPurchaseId(path_id, body_purchase_id) == body_purchase_id

\* POST /purchase/:purchase_id/meter-usage: the pre-handler, the handler's
\* checks, then recordUsage starts its transaction (pool.connect, BEGIN)
MeterUsageRequest(m, path_id, token, body_purchase_id, billed_amount) ==
    /\ mpc[m] = "idle"
    /\ meter_calls < MaxMeterCalls
    /\ meter_calls' = meter_calls + 1
    /\ LET l == [NoMeterLocals EXCEPT !.path_id = path_id, !.token = token,
                                      !.call = meter_calls + 1]
       IN  IF /\ authenticateVendorUpdateBilling(path_id, token)
              /\ meterUsageAuthorized(path_id, token)
           THEN /\ mpc' = [mpc EXCEPT ![m] = "insert"]
                /\ mloc' = [mloc EXCEPT ![m] =
                      [l EXCEPT !.accepted = TRUE,
                                !.purchase_id =
                                    recordedPurchaseId(path_id, body_purchase_id),
                                !.billed_amount = billed_amount]]
           ELSE /\ mpc' = [mpc EXCEPT ![m] = "idle"]
                /\ mloc' = [mloc EXCEPT ![m] =
                      [l EXCEPT !.outcome = "unauthorized"]]
    /\ UNCHANGED <<usage_records, checkout_vars,
                   gas_vars, ops_vars, aws_vars, http_vars>>

\* one meter-usage request at a time
UsageHandlers == {"m1"}

\* the billed_amount members a request body carries: the body is cast to
\* UsageRecord and handed on as it came, so also zero and a negative number
RequestedAmounts == BilledAmounts \cup {0, -250000}

meter_usage_handler(m) ==
    \/ \E path_id \in MeteredPurchases, token \in Tokens \cup {NoToken},
          body_purchase_id \in MeteredPurchases,
          billed_amount \in RequestedAmounts :
          MeterUsageRequest(m, path_id, token, body_purchase_id, billed_amount)
    \/ MeterInsert(m)
    \/ MeterFetchWallet(m)
    \/ MeterFetchPurchase(m)
    \/ MeterUpdate(m)
    \/ MeterCommit(m)
    \/ MeterFail(m)

\* the tables of MeterTables, no usage recorded, no call in flight
UsageTables ==
    /\ MeterTables(4000000, 4000000)
    /\ chain_token = [s \in Sessions |-> 0]
    /\ transfers = {}
    /\ deposits = 0
    /\ calls = 0
    /\ pc = [p \in Procs |-> "idle"]
    /\ loc = [p \in Procs |-> NoLocals]
    /\ finalized = {}
    /\ usage_records = {}
    /\ meter_calls = 0
    /\ mpc = [m \in MeterProcs |-> "idle"]
    /\ mloc = [m \in MeterProcs |-> NoMeterLocals]
    /\ IdleRequests

\* a database with or without the older columns
InitMeterUsage ==
    /\ UsageTables
    /\ legacy_keys \in BOOLEAN
    /\ cost_report = <<>>

\* a database made from the current schema text
InitBilling ==
    /\ UsageTables
    /\ legacy_keys = FALSE
    /\ cost_report = <<>>

\* ------------------------------------------------------- historical billing
\* the timestamps of usage events, in hours
Timestamps == {0, 1, 25}

\* the interval names a caller sends
Intervals == {"daily", "2 hours"}

\* the purchase that usage is billed to, the purchases reports are asked
\* for, and the amounts billed
BilledPurchases == {0}
ReportedPurchases == {0, 1}
ReportedAmounts == {250000, 600000}

\* the optional start_date and end_date
StartDates == {NoDate, 1}
EndDates == {NoDate, 24}

\* getHistoricalBillingReport's switch: the names it maps, anything else is
\* passed through
dbInterval(interval) ==
    CASE interval = "daily" -> "1 day"
      [] interval = "hourly" -> "1 hour"
      [] interval = "weekly" -> "1 week"
      [] OTHER -> interval

\* the width of a database interval, in hours
hours(interval) ==
    CASE interval = "1 hour" -> 1
      [] interval = "2 hours" -> 2
      [] interval = "1 day" -> 24
      [] interval = "1 week" -> 168

\* time_bucket($1, timestamp): the start of the interval the timestamp is in
time_bucket(interval, timestamp) ==
    timestamp - (timestamp % hours(interval))

\* SUM(...) over the rows of a group
RECURSIVE SUM(_)
SUM(rows) ==
    IF rows = {}
    THEN 0
    ELSE LET r == CHOOSE x \in rows : TRUE
         IN  r.billed_amount + SUM(rows \ {r})

\* variant: ORDER BY time_bucket DESC
precedesDesc(x, y) == x.time_bucket >= y.time_bucket

\* ASC: x is not after y
precedes(x, y) == x.time_bucket <= y.time_bucket

\* ORDER BY time_bucket ASC
RECURSIVE orderByTimeBucket(_)
orderByTimeBucket(entries) ==
    IF entries = {}
    THEN <<>>
    ELSE LET e == CHOOSE x \in entries : \A y \in entries : precedes(x, y)
         IN  <<e>> \o orderByTimeBucket(entries \ {e})

\* SELECT time_bucket, SUM(...) FROM usage_records WHERE purchase_id = $2
\* [AND timestamp >= start] [AND timestamp <= end]
\* GROUP BY time_bucket, purchase_id ORDER BY time_bucket ASC
getHistoricalBilling(purchaseId, interval, startDate, endDate) ==
    LET rows == {r \in usage_records :
                    /\ r.purchase_id = purchaseId
                    /\ startDate # NoDate => r.timestamp >= startDate
                    /\ endDate # NoDate => r.timestamp <= endDate}
        group(b) == {r \in rows : time_bucket(interval, r.timestamp) = b}
        buckets == {time_bucket(interval, r.timestamp) : r \in rows}
    IN  orderByTimeBucket(
            {[time_bucket |-> b, total_billed_amount |-> SUM(group(b)),
              purchase_id |-> purchaseId] : b \in buckets})

\* MeterService.getHistoricalBillingReport
getHistoricalBillingReport(purchase_id, interval, startDate, endDate) ==
    getHistoricalBilling(purchase_id, dbInterval(interval), startDate, endDate)

\* a call of getHistoricalBillingReport: one SELECT on the pool
HistoricalBilling(purchase_id, interval, startDate, endDate) ==
    /\ report' =
          [asked |-> TRUE, purchase_id |-> purchase_id,
           interval |-> interval, startDate |-> startDate,
           endDate |-> endDate, records |-> usage_records,
           result |-> getHistoricalBillingReport(purchase_id, interval,
                                                 startDate, endDate),
           repeated |-> /\ report.asked
                        /\ report.purchase_id = purchase_id
                        /\ report.interval = interval
                        /\ report.startDate = startDate
                        /\ report.endDate = endDate
                        /\ report.records = usage_records]
    /\ UNCHANGED <<checkout_vars, meter_vars, gas_vars, ops_vars, aws_vars,
                   replies, legacy_keys>>

\* MeterService.recordUsage(record) with the record's timestamp: the
\* transaction of addUsageRecordAndDeductBalance starts
RecordUsage(m, purchase_id, billed_amount, timestamp) ==
    /\ mpc[m] = "idle"
    /\ meter_calls < MaxMeterCalls
    /\ meter_calls' = meter_calls + 1
    /\ mpc' = [mpc EXCEPT ![m] = "insert"]
    /\ mloc' = [mloc EXCEPT ![m] =
          [NoMeterLocals EXCEPT !.purchase_id = purchase_id,
                                !.billed_amount = billed_amount,
                                !.timestamp = timestamp,
                                !.call = meter_calls + 1]]
    /\ UNCHANGED <<usage_records, checkout_vars,
                   gas_vars, ops_vars, aws_vars, http_vars>>

recordUsage(m) ==
    \/ \E purchase_id \in BilledPurchases, billed_amount \in ReportedAmounts,
          timestamp \in Timestamps :
          RecordUsage(m, purchase_id, billed_amount, timestamp)
    \/ MeterInsert(m)
    \/ MeterFetchWallet(m)
    \/ MeterFetchPurchase(m)
    \/ MeterUpdate(m)
    \/ MeterCommit(m)
    \/ MeterFail(m)

NextBilling ==
    \/ \E m \in UsageHandlers : recordUsage(m)
    \/ \E purchase_id \in ReportedPurchases, interval \in Intervals,
          startDate \in StartDates, endDate \in EndDates :
          HistoricalBilling(purchase_id, interval, startDate, endDate)

\* usage recorded and reported, one call at a time
SpecBilling == InitBilling /\ [][NextBilling]_vars

\* ---------------------------------------------------- cost-report ingestion
\* the purchases the rows of a report are tagged with, and their BlendedCost
TaggedPurchases == {0, 1, 7}
BlendedCosts == {250000}

\* bill/BillingPeriodStartDate of the month's report
BillingPeriodStartDate == 0

\* the reports of MaxRows tagged rows
CostReports ==
    [1..MaxRows -> [purchase_id : TaggedPurchases, BlendedCost : BlendedCosts]]

\* billedCost * 1.36
billedAmountWithMarkup(billedCost) == (billedCost * 136) \div 100

\* the usage record built from a row
rowUsageRecord(row) ==
    [purchase_id |-> row.purchase_id,
     timestamp |-> BillingPeriodStartDate,
     billed_amount |-> billedAmountWithMarkup(row.BlendedCost)]

\* variant: a row's error ends the loop over the file
afterRowErrorAbort(index) == MaxRows + 1

\* catch (rowError): logged, the loop goes on with the next row
afterRowError(index) == index + 1

\* the job's connection to the database
JobProc == "m1"

\* the callers of runDailyBillingJob: the cron job's onTick and the handler
\* of GET /health
Triggers == {"cron", "health"}

\* runDailyBillingJob(db, date): downloadBillingExportFolder fetches the
\* report of the date's month
RunDailyBillingJob(trigger) ==
    /\ job.pc = "idle"
    /\ job.run < MaxRuns
    /\ mpc[JobProc] = "idle"
    /\ job' = [job EXCEPT !.pc = "row", !.run = job.run + 1, !.index = 1,
                          !.outcomes = <<>>, !.trigger = trigger]
    /\ UNCHANGED <<checkout_vars, meter_vars, gas_vars, ops_vars, provisions,
                   cost_report, http_vars>>

\* processS3BillingFile, one row: getCustomerPurchaseById; no purchase: the
\* row is skipped; else addUsageRecordAndDeductBalance starts
ProcessRow ==
    /\ job.pc = "row"
    /\ job.index <= Len(cost_report)
    /\ LET row == cost_report[job.index]
           usage == rowUsageRecord(row)
       IN  IF getCustomerPurchaseById(row.purchase_id) = {}
           THEN /\ job' = [job EXCEPT !.index = job.index + 1,
                                      !.outcomes = Append(job.outcomes, "skipped")]
                /\ UNCHANGED meter_vars
           ELSE /\ job' = [job EXCEPT !.pc = "metering"]
                /\ meter_calls' = meter_calls + 1
                /\ mpc' = [mpc EXCEPT ![JobProc] = "insert"]
                /\ mloc' = [mloc EXCEPT ![JobProc] =
                      [NoMeterLocals EXCEPT
                          !.purchase_id = usage.purchase_id,
                          !.billed_amount = usage.billed_amount,
                          !.timestamp = usage.timestamp,
                          !.call = meter_calls + 1]]
                /\ UNCHANGED usage_records
    /\ UNCHANGED <<checkout_vars, gas_vars, ops_vars, provisions,
                   cost_report, http_vars>>

\* addUsageRecordAndDeductBalance has returned or thrown
RowDone ==
    /\ job.pc = "metering"
    /\ mpc[JobProc] = "idle"
    /\ IF mloc[JobProc].outcome = "ok"
       THEN job' = [job EXCEPT
                !.pc = "row",
                !.index = job.index + 1,
                !.outcomes = Append(job.outcomes, "ok"),
                !.metered = job.metered \cup
                    {[run |-> job.run, index |-> job.index,
                      id |-> mloc[JobProc].call]}]
       ELSE job' = [job EXCEPT
                !.pc = "row",
                !.index = afterRowError(job.index),
                !.outcomes = Append(job.outcomes, "error")]
    /\ UNCHANGED <<checkout_vars, meter_vars, gas_vars, ops_vars, provisions,
                   cost_report, http_vars>>

\* the file is read to its end: cleanupBillingExportFolder removes the
\* downloaded copy
JobFinished ==
    /\ job.pc = "row"
    /\ job.index > Len(cost_report)
    /\ job' = [job EXCEPT !.pc = "idle"]
    /\ UNCHANGED <<checkout_vars, meter_vars, gas_vars, ops_vars, provisions,
                   cost_report, http_vars>>

runDailyBillingJob ==
    \/ \E trigger \in Triggers : RunDailyBillingJob(trigger)
    \/ ProcessRow
    \/ MeterInsert(JobProc)
    \/ MeterFetchWallet(JobProc)
    \/ MeterFetchPurchase(JobProc)
    \/ MeterUpdate(JobProc)
    \/ MeterCommit(JobProc)
    \/ MeterFail(JobProc)
    \/ RowDone
    \/ JobFinished

\* the month's report in the bucket, read by every run of the month
InitIngest ==
    /\ UsageTables
    /\ legacy_keys = FALSE
    /\ cost_report \in CostReports

\* the daily job, run after run
SpecIngest == InitIngest /\ [][runDailyBillingJob]_vars

\* ----------------------------------------------------------- response bodies
\* A datum of a response body is <<table, column, checkout session of the
\* row>>; text that comes from the request or is fixed is Text.
WalletColumns ==
    {"id", "checkout_flow_id", "checkout_session_id", "title", "description",
     "evm_address", "private_key", "seed_phrase", "latest_usd_balance",
     "created_at", "updated_at", "tracer", "metadata", "purchase_id",
     "offramp_evm_address", "offer_id", "email"}

PurchaseColumns ==
    {"id", "wallet_id", "officex_purchase_id", "checkout_session_id", "title",
     "description", "customer_user_id", "customer_org_id", "customer_org_host",
     "vendor_id", "price_line", "customer_billing_api_key",
     "vendor_billing_api_key", "vendor_notes", "balance_low_trigger",
     "balance_critical_trigger", "balance_termination_trigger", "created_at",
     "updated_at", "tracer", "metadata"}

Text == <<"", "text", "">>
Undefined == <<"", "undefined", "">>

\* SELECT * FROM checkout_wallets: the row of the session, every column
walletRow(s) == [c \in WalletColumns |-> <<"checkout_wallets", c, s>>]

\* SELECT * FROM customer_purchases: the row of the session's purchase
purchaseRow(s) == [c \in PurchaseColumns |-> <<"customer_purchases", c, s>>]

\* what an escrow wallet must never give away
Secrets ==
    {<<"checkout_wallets", c, s>> : c \in {"private_key", "seed_phrase"},
                                   s \in Sessions}

\* JSON.stringify of an object: members that are undefined are left out
JSON(obj) == {obj[k] : k \in {j \in DOMAIN obj : obj[j] # Undefined}}

\* variant: the wallet row is spread into the response as it is
redactWalletNothing(row) == row

\* {...checkout_wallet, private_key: undefined, seed_phrase: undefined,
\*  tracer: undefined, metadata: undefined}
redactWallet(row) ==
    [row EXCEPT !.private_key = Undefined, !.seed_phrase = Undefined,
                !.tracer = Undefined, !.metadata = Undefined]

\* {...purchase, customer_billing_api_key: undefined,
\*  vendor_billing_api_key: undefined, tracer: undefined, metadata: undefined}
redactPurchase(row) ==
    [row EXCEPT !.customer_billing_api_key = Undefined,
                !.vendor_billing_api_key = Undefined,
                !.tracer = Undefined, !.metadata = Undefined]

InitOutcomes == {"success", "internal_error"}
ValidateOutcomes ==
    {"not_found", "insufficient", "update_failed", "success", "internal_error"}
FinalizeOutcomes ==
    {"not_found", "already_linked", "insufficient", "update_failed",
     "no_offramp", "gas_failed", "sweep_reverted", "sweep_failed", "success",
     "internal_error"}
TopupOutcomes ==
    {"not_found", "no_purchase", "insufficient", "gas_failed", "no_offramp",
     "sweep_failed", "update_failed", "success", "internal_error"}
PurchaseOutcomes ==
    {"not_found", "unauthorized", "wallet_not_found", "success",
     "internal_error"}

\* initCheckout: crypto_checkout.receiving_address is the new wallet's
\* evm_address, checkout_session_id its session
initCheckoutReply(s, outcome) ==
    IF outcome = "success"
    THEN {Text, walletRow(s).checkout_session_id, walletRow(s).evm_address}
    ELSE {Text}

\* validateCheckout: the messages name wallet.evm_address
validateCheckoutReply(s, outcome) ==
    IF outcome \in {"insufficient", "update_failed", "success"}
    THEN {Text, walletRow(s).evm_address}
    ELSE {Text}

\* finalizeCheckout: the messages name wallet.evm_address and
\* wallet.purchase_id; the receipt of a success carries the purchase's
\* customer_billing_api_key in its dashboard links
finalizeCheckoutReply(s, outcome) ==
    IF outcome = "already_linked"
    THEN {Text, walletRow(s).evm_address, walletRow(s).purchase_id}
    ELSE IF outcome \in {"insufficient", "update_failed", "no_offramp"}
    THEN {Text, walletRow(s).evm_address}
    ELSE IF outcome = "success"
    THEN {Text, purchaseRow(s).customer_billing_api_key}
    ELSE {Text}

\* topupCheckout: the messages name wallet.evm_address
topupCheckoutReply(s, outcome) ==
    IF outcome \in {"insufficient", "no_offramp"}
    THEN {Text, walletRow(s).evm_address}
    ELSE {Text}

\* get_purchase_handler: the purchase and its wallet, redacted
getPurchaseReply(s, outcome) ==
    IF outcome = "success"
    THEN JSON(redactPurchase(purchaseRow(s))) \cup JSON(redactWallet(walletRow(s)))
    ELSE {Text}

\* meter_usage_handler: the columns of the usage record it has stored
meterUsageReply(s, outcome) ==
    IF outcome = "success"
    THEN {Text} \cup {<<"usage_records", c, s>> :
                         c \in {"id", "purchase_id", "timestamp", "usage_amount",
                                "usage_unit", "billed_amount", "description",
                                "metadata"}}
    ELSE {Text}

\* historical_billing_handler: the buckets
historicalBillingReply(s, outcome) ==
    IF outcome = "success"
    THEN {<<"usage_records", c, s>> :
             c \in {"time_bucket", "total_usage_amount", "total_billed_amount",
                    "purchase_id"}}
    ELSE {Text}

\* validate_auth_handler: {valid, message}
validateAuthReply(s, outcome) == {Text}

\* reply.send(body)
Send(op, s, outcome, body) ==
    /\ Cardinality(replies) < MaxReplies
    /\ replies' = replies \cup
          {[op |-> op, session |-> s, outcome |-> outcome, body |-> body]}
    /\ UNCHANGED <<checkout_vars, meter_vars, gas_vars, ops_vars, aws_vars,
                   legacy_keys, report>>

SendCheckoutInit ==
    \E s \in Sessions, o \in InitOutcomes :
        Send("init", s, o, initCheckoutReply(s, o))

SendCheckoutValidate ==
    \E s \in Sessions, o \in ValidateOutcomes :
        Send("validate", s, o, validateCheckoutReply(s, o))

SendCheckoutFinalize ==
    \E s \in Sessions, o \in FinalizeOutcomes :
        Send("finalize", s, o, finalizeCheckoutReply(s, o))

SendCheckoutTopup ==
    \E s \in Sessions, o \in TopupOutcomes :
        Send("topup", s, o, topupCheckoutReply(s, o))

SendPurchase ==
    \E s \in Sessions, o \in PurchaseOutcomes :
        Send("purchase", s, o, getPurchaseReply(s, o))

SendMeterUsage ==
    \E s \in Sessions, o \in {"not_found", "unauthorized", "success", "failed"} :
        Send("meter_usage", s, o, meterUsageReply(s, o))

SendHistoricalBilling ==
    \E s \in Sessions,
       o \in {"not_found", "unauthorized", "success", "internal_error"} :
        Send("historical_billing", s, o, historicalBillingReply(s, o))

SendValidateAuth ==
    \E s \in Sessions, o \in {"not_found", "unauthorized", "success",
                               "internal_error"} :
        Send("validate_auth", s, o, validateAuthReply(s, o))

\* -------------------------------------------------------- checkout routes
\* CRYPTO_WALLET_TOPUP_GIFT_CARD_ONLY.checkout_flow_id, the id of the one
\* checkout flow of this server
checkout_flow_id_of_offer == "001_amazon_storage_crypto_wallet_topup_gift_card_only"

\* the checkout_flow_id members of request bodies: the flow's and another
FlowIds == {checkout_flow_id_of_offer, "no_such_flow"}

\* variant: the default branch is missing
flowFoundAlways(checkout_flow_id) == TRUE

\* switch (checkout_flow_id): the case of the flow is taken
flowFound(checkout_flow_id) == checkout_flow_id = checkout_flow_id_of_offer

\* default: reply.status(404).send({ error: "Checkout flow not found" })
FlowNotFound(op) == Send(op, NULL, "flow_not_found", {Text})

\* POST /checkout/initiate
checkout_init_handler(checkout_flow_id, offramp) ==
    IF flowFound(checkout_flow_id)
    THEN initCheckout(offramp)
    ELSE FlowNotFound("init")

\* POST /checkout/validate: the switch, then the steps of validateCheckout
verify_deposit_wallet_handler(o, checkout_flow_id) ==
    IF flowFound(checkout_flow_id)
    THEN \E s \in Sessions : ValidateGetWallet(o, s)
    ELSE opc[o] = "idle" /\ FlowNotFound("validate")

\* POST /checkout/finalize: the switch, then the steps of finalizeCheckout
finalize_checkout_handler(p, checkout_flow_id) ==
    IF flowFound(checkout_flow_id)
    THEN \E s \in Sessions : FinalizeGetWallet(p, s)
    ELSE pc[p] = "idle" /\ FlowNotFound("finalize")

\* ---------------------------------------------------------- specifications
NextCheckout ==
    \/ \E offramp \in BOOLEAN : initCheckout(offramp)
    \/ \E s \in Sessions, a \in DepositAmounts : Deposit(s, a)
    \/ \E p \in Procs : finalizeCheckout(p)

NextMeter == \E m \in MeterProcs : addUsageRecordAndDeductBalance(m)

\* checkout on an empty database
\* the request handlers that run the checkout and topup routes: one finalize
\* and one validate / topup request at a time
Finalizers == {"f1"}

NextOps ==
    \/ \E p \in Finalizers : finalizeCheckout(p)
    \/ \E o \in OpProcs : validateCheckout(o)
    \/ \E o \in OpProcs : topupCheckout(o)

\* a finalize call and the usage metered afterwards
NextLifecycle ==
    \/ \E p \in Finalizers : finalizeCheckout(p)
    \/ \E m \in UsageHandlers : addUsageRecordAndDeductBalance(m)

\* no checkout request is being served
NoRequest ==
    /\ \A p \in Finalizers : pc[p] = "idle"
    /\ \A o \in OpProcs : opc[o] = "idle"

\* the validate and finalize requests served so far stay under the bound
MoreRequests == calls + op_calls < MaxCalls

\* the three checkout routes with the steps of the calls they dispatch to,
\* one request after the other
NextDispatch ==
    \/ /\ NoRequest
       /\ \E f \in FlowIds, offramp \in BOOLEAN : checkout_init_handler(f, offramp)
    \/ /\ NoRequest
       /\ \E s \in Sessions, a \in OpsDeposits : Deposit(s, a)
    \/ /\ NoRequest /\ MoreRequests
       /\ \E p \in Finalizers, f \in FlowIds : finalize_checkout_handler(p, f)
    \/ \E p \in Finalizers : FinalizeGetBalance(p)
    \/ \E p \in Finalizers : FinalizeUpdateWallet(p)
    \/ \E p \in Finalizers : FinalizeSendGas(p)
    \/ \E p \in Finalizers : FinalizeCreatePurchase(p)
    \/ \E p \in Finalizers : FinalizeSweep(p)
    \/ \E p \in Finalizers : FinalizeProvision(p)
    \/ /\ NoRequest /\ MoreRequests
       /\ \E o \in OpProcs, f \in FlowIds : verify_deposit_wallet_handler(o, f)
    \/ \E o \in OpProcs : ValidateGetBalance(o)
    \/ \E o \in OpProcs : ValidateUpdate(o)

NextGas ==
    \/ \E g \in GasProcs : sendFromGasTank(g)
    \/ GasMine

NextReplies ==
    \/ SendCheckoutInit
    \/ SendCheckoutValidate
    \/ SendCheckoutFinalize
    \/ SendCheckoutTopup
    \/ SendPurchase
    \/ SendMeterUsage
    \/ SendHistoricalBilling
    \/ SendValidateAuth

Spec == Init /\ [][NextCheckout]_vars

\* checkout on a database that holds a linked wallet
SpecSeeded == InitSeeded /\ [][NextCheckout]_vars

\* metering on a database that holds purchases
SpecMeter == InitMeter /\ [][NextMeter]_vars

\* finalize, validate and topup over the wallets of InitOps
SpecOps == InitOps /\ [][NextOps]_vars

\* the gas-funding step of finalize and topup, two callers at a time
SpecGas == Init /\ [][NextGas]_vars

SpecLifecycle == InitOps /\ [][NextLifecycle]_vars

NextMeterUsage == \E m \in UsageHandlers : meter_usage_handler(m)

\* the checkout routes on an empty database
SpecDispatch == Init /\ [][NextDispatch]_vars

\* the meter-usage route on a database that holds purchases
SpecMeterUsage == InitMeterUsage /\ [][NextMeterUsage]_vars

\* the bodies the HTTP handlers send, by handler, session and branch
SpecReplies == Init /\ [][NextReplies]_vars

\* ------------------------------------------------------------------ claims
PurchasesOf(s) == {r \in customer_purchases : r.wallet_id = s}

\* C1: in every reachable state, concurrent finalize calls included, at most
\* one row of customer_purchases references a given wallet_id.
C1_OnePurchasePerWallet ==
    \A s \in Sessions : Cardinality(PurchasesOf(s)) <= 1

\* two finalize calls on one wallet were in flight together; one has inserted
\* the purchase, the INSERT of the other was rejected
C1_Witness ==
    \E p, q \in Procs :
        /\ p # q
        /\ loc[p].session = loc[q].session
        /\ pc[p] = "sweep"
        /\ loc[p].purchase # NoPurchase
        /\ loc[q].error = "unique_violation"
        /\ loc[q].call > loc[p].call
        /\ Cardinality(PurchasesOf(loc[p].session)) = 1

\* the part of a finalize call between its check of wallet.purchase_id and
\* its INSERT of the purchase
BetweenCheckAndCreate == {"balance", "update", "gas", "create"}

\* C2: the check that the wallet is not linked and the creation of the
\* purchase are one transaction: no two finalize calls on the same wallet are
\* both past the check and before the creation.
C2_CheckAndCreateAtomic ==
    \A p, q \in Procs :
        (p # q /\ pc[p] \in BetweenCheckAndCreate
               /\ pc[q] \in BetweenCheckAndCreate)
            => loc[p].session # loc[q].session

\* C4: when the sweep of a finalize call has failed (thrown or reverted), no
\* purchase exists for the wallet when the call returns.
C4_NoPurchaseAfterFailedSweep ==
    \A p \in Procs :
        (pc[p] = "idle" /\ loc[p].sweep \in {"reverted", "threw"})
            => PurchasesOf(loc[p].session) = {}

\* C5: after a finalize call that returned success, the wallet's purchase_id
\* is the id of the purchase the call created.
C5_LinkedAfterSuccess ==
    \A p \in Procs :
        loc[p].outcome = "success"
            => checkout_wallets[loc[p].session].purchase_id = loc[p].purchase

\* C6: a finalize call that starts after a finalize on the same wallet has
\* succeeded returns the already-linked conflict and creates no purchase.
C6_ConflictAfterSuccess ==
    \A p \in Procs :
        (pc[p] = "idle" /\ loc[p].outcome # "none" /\ loc[p].after_success)
            => /\ loc[p].outcome = "already_linked"
               /\ loc[p].purchase = NoPurchase

\* the call has got past the three preconditions
PastPreconditions(p) ==
    \/ pc[p] \in {"update", "gas", "create", "sweep", "provision"}
    \/ /\ pc[p] = "idle"
       /\ loc[p].outcome \notin {"none", "not_found", "already_linked",
                                 "insufficient"}

NoEffects(p) ==
    /\ loc[p].gas = "none"
    /\ loc[p].sweep = "none"
    /\ loc[p].purchase = NoPurchase
    /\ loc[p].updated_balance = -1
    /\ \A t \in transfers : t.call # loc[p].call

\* C7: finalize checks (a) the wallet exists, (b) it is not linked, (c) the
\* fresh balance is at least the minimum target, in this order; a call that
\* fails one of them has sent no gas, swept nothing and created no purchase,
\* and a call gets further only when all three hold.
C7_PreconditionsInOrder ==
    \A p \in Procs :
        /\ loc[p].outcome = "not_found"
              => /\ ~loc[p].wallet.exists
                 /\ loc[p].token_balance = -1
                 /\ NoEffects(p)
        /\ loc[p].outcome = "already_linked"
              => /\ loc[p].wallet.exists
                 /\ loc[p].wallet.purchase_id # NoPurchase
                 /\ loc[p].token_balance = -1
                 /\ NoEffects(p)
        /\ loc[p].outcome = "insufficient"
              => /\ loc[p].wallet.exists
                 /\ loc[p].wallet.purchase_id = NoPurchase
                 /\ loc[p].token_balance < minTargetBalance
                 /\ NoEffects(p)
        /\ PastPreconditions(p)
              => /\ loc[p].wallet.exists
                 /\ loc[p].wallet.purchase_id = NoPurchase
                 /\ loc[p].token_balance >= minTargetBalance

\* one call was refused for a linked wallet, another for its balance
C7_Witness ==
    \E p, q \in Procs :
        /\ loc[p].outcome = "already_linked"
        /\ loc[q].outcome = "insufficient"
        /\ loc[q].token_balance > 0

\* C8 (as stated): on a successful finalize with observed balance B the
\* amount swept is B minus the operational buffer.
C8_SweepsBalanceMinusBuffer ==
    \A p \in Procs :
        loc[p].outcome = "success"
            => loc[p].swept = loc[p].token_balance - gas_transfer_buffer

\* C8 (amended): a successful sweep moves the full observed balance B (B, or
\* one raw unit less where the conversion through a double rounds down); the
\* buffer is taken off the balance recorded for the wallet only.
C8_SweepsFullBalance ==
    /\ \A t \in transfers :
          /\ t.amount <= t.observed
          /\ t.amount >= t.observed - 1
    /\ \A p \in Procs :
          loc[p].sweep = "success"
              => /\ \E t \in transfers : /\ t.call = loc[p].call
                                         /\ t.amount = loc[p].swept
                                         /\ t.observed = loc[p].token_balance
                 /\ loc[p].updated_balance =
                        loc[p].token_balance - gas_transfer_buffer

\* finalize succeeded with B = 12 USDC: 12 swept, 11.60 recorded
C8_Witness ==
    \E p \in Procs :
        /\ loc[p].outcome = "success"
        /\ loc[p].token_balance = 12000000
        /\ loc[p].swept = 12000000
        /\ loc[p].updated_balance = 11600000

\* C9: every purchase created by finalize has
\* balance_termination_trigger <= balance_critical_trigger <= balance_low_trigger.
C9_ThresholdsOrdered ==
    \A r \in customer_purchases :
        /\ r.balance_termination_trigger <= r.balance_critical_trigger
        /\ r.balance_critical_trigger <= r.balance_low_trigger

\* the records a step adds to usage_records
Added == usage_records' \ usage_records

\* C3: recordUsage is atomic. Whatever step fails, a usage record becomes
\* part of the committed state in the very step in which the balance of the
\* purchase's wallet drops by its billed_amount, and a balance changes only so.
C3_Atomic ==
    [][ /\ \A r \in Added :
              \E s \in Sessions :
                  /\ checkout_wallets[s].exists
                  /\ checkout_wallets[s].purchase_id = r.purchase_id
                  /\ checkout_wallets'[s].latest_usd_balance =
                        checkout_wallets[s].latest_usd_balance - r.billed_amount
        /\ \A s \in Sessions :
              (checkout_wallets[s].exists /\ checkout_wallets'[s] # checkout_wallets[s])
                  => \E r \in Added :
                        /\ checkout_wallets[s].purchase_id = r.purchase_id
                        /\ checkout_wallets'[s].latest_usd_balance =
                              checkout_wallets[s].latest_usd_balance
                                  - r.billed_amount
      ]_vars

\* a failure after the INSERT and before the UPDATE: the call ended in an
\* error and its record is not in the table
C3_Witness ==
    \E m \in MeterProcs :
        /\ mloc[m].outcome = "error"
        /\ mloc[m].inserted
        /\ mloc[m].failed_at = "update"
        /\ ~mloc[m].updated
        /\ usageRecord(mloc[m]) \notin usage_records

LinkedWallets(purchase_id) ==
    {s \in Sessions : /\ checkout_wallets[s].exists
                      /\ checkout_wallets[s].purchase_id = purchase_id}

\* C11: a successful recordUsage with billed amount c against a purchase
\* whose linked wallet has balance B appends exactly one usage record with
\* billed_amount c for that purchase, leaves that wallet's balance at B - c
\* and changes no other wallet.
C11_RecordAndDeduct ==
    [][ \A m \in MeterProcs :
          (mpc[m] = "commit" /\ mloc'[m].outcome = "ok")
              => /\ Added = {usageRecord(mloc[m])}
                 /\ \A r \in Added : /\ r.billed_amount = mloc[m].billed_amount
                                     /\ r.purchase_id = mloc[m].purchase_id
                 /\ \E w \in LinkedWallets(mloc[m].purchase_id) :
                       /\ checkout_wallets'[w].latest_usd_balance =
                             checkout_wallets[w].latest_usd_balance
                                 - mloc[m].billed_amount
                       /\ \A s \in Sessions \ {w} :
                             checkout_wallets'[s] = checkout_wallets[s]
      ]_vars

\* 0.25 billed against a balance of 1.00 with a low trigger of 0.80: the
\* balance is 0.75, low is reported, the record is stored
C11_Witness ==
    \E m \in MeterProcs :
        /\ mloc[m].outcome = "ok"
        /\ mloc[m].billed_amount = 250000
        /\ mloc[m].balance_before = 1000000
        /\ mloc[m].reported = "low"
        /\ usageRecord(mloc[m]) \in usage_records
        /\ \E w \in LinkedWallets(mloc[m].purchase_id) :
              checkout_wallets[w].latest_usd_balance = 750000
        /\ \E r \in customer_purchases : /\ r.id = mloc[m].purchase_id
                                         /\ r.balance_low_trigger = 800000

\* the purchase, or the wallet linked to it, does not exist
NotFound(purchase_id) ==
    \/ \A r \in customer_purchases : r.id # purchase_id
    \/ LinkedWallets(purchase_id) = {}

\* C12: a recordUsage call for a purchase id whose purchase or linked wallet
\* cannot be found ends in an error; it has run no UPDATE, its record is not
\* in usage_records, and ending it changes no wallet.
C12_NotFoundRollsBack ==
    [][ \A m \in MeterProcs :
          (mpc[m] # "idle" /\ mpc'[m] = "idle" /\ NotFound(mloc[m].purchase_id))
              => /\ mloc'[m].outcome = "error"
                 /\ ~mloc'[m].updated
                 /\ checkout_wallets' = checkout_wallets
                 /\ usageRecord(mloc[m]) \notin usage_records'
      ]_vars

\* the purchase exists, its wallet is not linked: the call has inserted its
\* record, failed at the wallet lookup, and the record is gone
C12_Witness ==
    \E m \in MeterProcs :
        /\ mloc[m].outcome = "error"
        /\ mloc[m].failed_at = "wallet"
        /\ mloc[m].inserted
        /\ \E r \in customer_purchases : r.id = mloc[m].purchase_id
        /\ LinkedWallets(mloc[m].purchase_id) = {}
        /\ usageRecord(mloc[m]) \notin usage_records

\* C13: concurrent sendFromGasTank calls are serialized against the gas-tank
\* account: no two calls hold the same sequence number for submission, and
\* no submission is refused because its sequence number is taken.
C13_GasTankSerialized ==
    /\ \A g, h \in GasProcs :
          (g # h /\ gpc[g] = "submit" /\ gpc[h] = "submit")
              => gloc[g].nonce # gloc[h].nonce
    /\ \A g \in GasProcs : gloc[g].error # "nonce"

\* C18: the gas tank sends to a wallet only when the wallet's native balance
\* is below the minimum for one sweep (here: below one funding amount).
C18_GasOnlyWhenBelowMinimum ==
    \A tx \in gas_txs : tx.native_before < GAS_TANK_AMOUNT_ETH

\* C20: a wait for confirmation that timed out does not by itself produce the
\* failure outcome: when the caller has alerted and reported failure after a
\* timeout, the transaction is known to have failed.
C20_TimeoutIsNotFailure ==
    \A g \in GasProcs :
        (gloc[g].timed_out /\ gloc[g].outcome = "gas_failed")
            => \E tx \in gas_txs : /\ tx.call = gloc[g].call
                                   /\ tx.status = "reverted"

\* C14: a finalize or topup call that ends in a server error caused by a
\* chain failure (gas transfer or sweep thrown or reverted) or by a
\* persistence failure has raised the vendor alert.
C14_FailuresAlert ==
    /\ \A p \in Procs :
          (\/ loc[p].outcome \in {"gas_failed", "sweep_reverted", "sweep_failed"}
           \/ loc[p].outcome = "internal_error" /\ loc[p].error = "persistence")
              => loc[p].alerted
    /\ \A o \in OpProcs :
          (/\ oloc[o].op = "topup"
           /\ \/ oloc[o].outcome \in {"gas_failed", "sweep_failed", "update_failed"}
              \/ oloc[o].outcome = "internal_error" /\ oloc[o].error = "persistence")
              => oloc[o].alerted

\* C15: every validate call that has observed the balance has written it to
\* the wallet's latest_usd_balance, below the minimum target as well as at or
\* above it.
C15_ValidatePersistsAlways ==
    \A o \in OpProcs :
        (oloc[o].op = "validate" /\ oloc[o].outcome \in {"insufficient", "success"})
            => oloc[o].persisted

\* a step taken by a validate call
ValidateStep(o) ==
    /\ opc'[o] # opc[o] \/ oloc'[o] # oloc[o]
    /\ oloc'[o].op = "validate"

\* no wallet row appears or disappears and no purchase_id changes
LinkageUnchanged ==
    \A s \in Sessions :
        /\ checkout_wallets'[s].exists = checkout_wallets[s].exists
        /\ checkout_wallets[s].exists
              => checkout_wallets'[s].purchase_id = checkout_wallets[s].purchase_id

\* C16: no step of validate changes a wallet's purchase_id or the set of
\* purchase records.
C16_ValidateKeepsLinkage ==
    [][ \A o \in OpProcs :
          ValidateStep(o) => /\ LinkageUnchanged
                             /\ customer_purchases' = customer_purchases
      ]_vars

\* validate has written the observed balance to a linked wallet, which is
\* still linked to its purchase
C16_Witness ==
    \E o \in OpProcs :
        /\ oloc[o].op = "validate"
        /\ oloc[o].persisted
        /\ oloc[o].wallet.purchase_id # NoPurchase
        /\ checkout_wallets[oloc[o].session].latest_usd_balance =
              oloc[o].token_balance
        /\ checkout_wallets[oloc[o].session].purchase_id =
              oloc[o].wallet.purchase_id

\* C17: a wallet row is never deleted, and a purchase_id that is set is never
\* changed or cleared, by any step of finalize, validate or topup.
C17_LinkIsPermanent ==
    [][ \A s \in Sessions :
          checkout_wallets[s].exists
              => /\ checkout_wallets'[s].exists
                 /\ checkout_wallets[s].purchase_id # NoPurchase
                       => checkout_wallets'[s].purchase_id =
                              checkout_wallets[s].purchase_id
      ]_vars

\* a linked wallet that topup has swept and validate has then updated is
\* still linked to its purchase
C17_Witness ==
    /\ \E t \in transfers : t.op = "topup" /\ t.from = "s0"
    /\ \E o \in OpProcs : /\ oloc[o].op = "validate"
                          /\ oloc[o].session = "s0"
                          /\ oloc[o].outcome # "none"
    /\ checkout_wallets["s0"].purchase_id = 0

\* C19: in finalize and in topup a sweep is submitted only after the gas
\* funding of the same call has returned a successful receipt; a call whose
\* gas funding threw or reverted has swept nothing and created no purchase.
C19_SweepAfterGas ==
    /\ \A p \in Procs :
          /\ (loc[p].sweep # "none" \/ pc[p] = "sweep") => loc[p].gas = "success"
          /\ loc[p].gas \in {"reverted", "threw"}
                => /\ loc[p].sweep = "none"
                   /\ loc[p].purchase = NoPurchase
                   /\ pc[p] = "idle"
    /\ \A o \in OpProcs :
          /\ (oloc[o].sweep \in {"success", "reverted", "threw"}
                 \/ opc[o] = "t_sweep") => oloc[o].gas = "success"
          /\ oloc[o].gas \in {"reverted", "threw"}
                => /\ oloc[o].sweep \in {"none", "asked"}
                   /\ opc[o] = "idle"
    /\ \A t \in transfers : t.gas = "success"

\* a topup has swept after its gas funding succeeded, and a finalize whose
\* gas funding reverted has stopped
C19_Witness ==
    /\ \E o \in OpProcs : /\ oloc[o].op = "topup"
                          /\ oloc[o].gas = "success"
                          /\ oloc[o].sweep = "success"
    /\ \E p \in Procs : /\ loc[p].gas = "reverted"
                        /\ loc[p].outcome = "gas_failed"

\* C21: a balance read that met an unreachable chain client is not reported
\* as a balance of zero: the validate, finalize or topup call holds no
\* observed balance and does not answer insufficient funds (nor success);
\* only a failed read of the token's balance counts as zero.
C21_UnreachableIsHardFailure ==
    /\ \A p \in Procs :
          /\ loc[p].chain = "unreachable"
                => /\ loc[p].token_balance # 0
                   /\ loc[p].outcome \notin {"insufficient", "success"}
          /\ loc[p].chain = "token_read_failed" => loc[p].token_balance = 0
    /\ \A o \in OpProcs :
          /\ oloc[o].chain = "unreachable"
                => /\ oloc[o].token_balance # 0
                   /\ oloc[o].outcome \notin {"insufficient", "success"}
          /\ oloc[o].chain = "token_read_failed" => oloc[o].token_balance = 0

\* the call has read a balance, and it is below the minimum target
ObservedBelowTarget(l) ==
    l.token_balance >= 0 /\ l.token_balance < minTargetBalance

\* C22: a validate, finalize or topup call that observed a balance below the
\* minimum target has answered with the not-yet-successful response
\* (success false, not a server error) and has sent no gas, swept nothing,
\* written nothing and created no purchase.
C22_InsufficientIsInformational ==
    /\ \A p \in Procs :
          ObservedBelowTarget(loc[p])
              => /\ pc[p] = "idle"
                 /\ loc[p].outcome = "insufficient"
                 /\ loc[p].gas = "none"
                 /\ loc[p].sweep = "none"
                 /\ loc[p].purchase = NoPurchase
                 /\ loc[p].updated_balance = -1
                 /\ \A t \in transfers :
                       ~(t.op = "finalize" /\ t.call = loc[p].call)
    /\ \A o \in OpProcs :
          ObservedBelowTarget(oloc[o])
              => /\ opc[o] = "idle"
                 /\ oloc[o].outcome = "insufficient"
                 /\ oloc[o].gas = "none"
                 /\ oloc[o].sweep \in {"none", "asked"}
                 /\ oloc[o].swept = 0
                 /\ ~oloc[o].persisted
                 /\ \A t \in transfers :
                       ~(t.op = "topup" /\ t.call = oloc[o].call)

\* finalize was told of 0.30 USDC in the wallet and topup of nothing in the
\* wallet of the purchase: both answered insufficient funds
C22_Witness ==
    /\ \E p \in Procs : /\ loc[p].outcome = "insufficient"
                        /\ loc[p].chain = "ok"
                        /\ loc[p].token_balance = 300000
    /\ \E o \in OpProcs : /\ oloc[o].op = "topup"
                          /\ oloc[o].outcome = "insufficient"
                          /\ oloc[o].chain = "ok"
                          /\ oloc[o].purchase # NoPurchase

\* C23: deployNewS3Bucket is called at most once for a purchase, and each
\* call of it is for a purchase that exists and comes after the sweep of the
\* same finalize call has moved the funds with a successful receipt.
C23_ProvisionedOnceAfterSweep ==
    /\ \A a, b \in provisions : a.purchase_id = b.purchase_id => a = b
    /\ \A a \in provisions :
          /\ a.sweep = "success"
          /\ \E r \in customer_purchases : r.id = a.purchase_id
          /\ \E t \in transfers : t.op = "finalize" /\ t.call = a.call

\* of two concurrent finalize calls on one wallet one has created the
\* purchase, swept and called deployNewS3Bucket; the other was stopped at its
\* INSERT and has provisioned nothing
C23_Witness ==
    \E p, q \in Procs :
        /\ p # q
        /\ loc[p].session = loc[q].session
        /\ loc[p].provisioned
        /\ loc[q].error = "unique_violation"
        /\ loc[q].gas = "success"
        /\ provisions = {[purchase_id |-> loc[p].purchase,
                          call |-> loc[p].call, sweep |-> "success"]}

C25_NoKeyMaterialInReplies ==
    \A r \in replies : r.body \cap Secrets = {}

\* get purchase has answered with the wallet row: its address is in the body,
\* its private key and seed phrase are not
C25_Witness ==
    \E r \in replies :
        /\ r.op = "purchase"
        /\ r.outcome = "success"
        /\ walletRow(r.session).evm_address \in r.body
        /\ walletRow(r.session).latest_usd_balance \in r.body
        /\ walletRow(r.session).private_key \notin r.body
        /\ walletRow(r.session).seed_phrase \notin r.body

C28_RowsProcessedIndependently ==
    /\ job.pc = "idle" /\ job.run > 0
          => Len(job.outcomes) = Len(cost_report)
    /\ \A i \in 1..Len(job.outcomes) :
          LET row == cost_report[i]
              stored == {e \in job.metered : e.run = job.run /\ e.index = i}
          IN  /\ getCustomerPurchaseById(row.purchase_id) = {}
                    <=> job.outcomes[i] = "skipped"
              /\ job.outcomes[i] # "ok" => stored = {}
              /\ job.outcomes[i] = "ok"
                    => \E e \in stored : \E r \in usage_records :
                          /\ r.id = e.id
                          /\ r.purchase_id = row.purchase_id
                          /\ r.billed_amount =
                                billedAmountWithMarkup(row.BlendedCost)

\* a finished run that skipped a row, failed on the next and recorded the last
C28_Witness ==
    /\ job.pc = "idle"
    /\ job.run = 1
    /\ job.outcomes = <<"skipped", "error", "ok">>
    /\ Cardinality(usage_records) = 1

C30_UsageRecordsAppendOnly ==
    [][usage_records \subseteq usage_records']_vars

\* a second record is stored for a purchase and its first record is still there
C30_Witness ==
    \E r1 \in usage_records, r2 \in usage_records :
        /\ r1.id < r2.id
        /\ r1.purchase_id = r2.purchase_id

\* C31: no on-chain transaction is sent again after a failure: a finalize
\* call sends at most one gas-tank transaction and at most one sweep, a topup
\* call at most one gas-tank transaction and at most one sweep of the token
\* it names.
C31_NoAutomaticRetry ==
    /\ \A p \in Procs : loc[p].gas_sent <= 1 /\ loc[p].sweeps_sent <= 1
    /\ \A o \in OpProcs : oloc[o].gas_sent <= 1 /\ oloc[o].sweeps_sent <= 1

\* a finalize call has ended on a failed sweep and a topup call on a failed
\* gas transaction, each after one transaction
C31_Witness ==
    /\ \E p \in Procs :
          /\ loc[p].outcome \in {"sweep_failed", "sweep_reverted"}
          /\ loc[p].gas_sent = 1
          /\ loc[p].sweeps_sent = 1
    /\ \E o \in OpProcs :
          /\ oloc[o].op = "topup"
          /\ oloc[o].outcome = "gas_failed"
          /\ oloc[o].gas_sent = 1

\* C32: a recordUsage call for a purchase that a successful finalize created
\* finds the purchase's wallet: when the call is at its wallet lookup, the
\* lookup by purchase_id returns the wallet the purchase names in wallet_id.
C32_UsageFindsWalletOfPurchase ==
    \A m \in MeterProcs : \A p \in Procs :
        (/\ loc[p].outcome = "success"
         /\ mpc[m] = "wallet"
         /\ mloc[m].purchase_id = loc[p].purchase)
            => getCheckoutWalletByPurchaseId(mloc[m].purchase_id)
                   = {loc[p].session}

\* C33: while a purchase exists for a wallet, a step changes the wallet's
\* latest_usd_balance only if it is the commit of a recordUsage call or a
\* step of a topup call.
C33_MeteredBalanceNotOverwritten ==
    [][ \A s \in Sessions :
          (/\ checkout_wallets[s].exists
           /\ PurchasesOf(s) # {}
           /\ checkout_wallets'[s].latest_usd_balance
                 # checkout_wallets[s].latest_usd_balance)
              => \/ \E m \in MeterProcs : mpc[m] = "commit" /\ mpc'[m] = "idle"
                 \/ \E o \in OpProcs : oloc[o].op = "topup" /\ opc[o] # "idle" ]_vars

\* the billed amounts of the committed usage records of a purchase
BilledTotal(rows, purchase_id) ==
    SUM({r \in rows : r.purchase_id = purchase_id})

\* C34: however concurrent recordUsage calls against one purchase interleave,
\* no deduction is lost: in every step the balance of the purchase's wallet
\* plus the billed amounts of the purchase's usage records stays the same,
\* and every call that has committed has exactly one usage record.
C34_NoLostDeduction ==
    [][ /\ \A s \in Sessions :
              (checkout_wallets[s].exists
                 /\ checkout_wallets[s].purchase_id # NoPurchase)
                  => checkout_wallets'[s].latest_usd_balance
                         + BilledTotal(usage_records',
                                       checkout_wallets[s].purchase_id)
                       = checkout_wallets[s].latest_usd_balance
                         + BilledTotal(usage_records,
                                       checkout_wallets[s].purchase_id)
        /\ \A m \in MeterProcs :
              mloc'[m].outcome = "ok"
                  => Cardinality({r \in usage_records' :
                                     r.id = mloc'[m].call}) = 1 ]_vars

\* two calls against one purchase have both committed; the one that began
\* first ran its UPDATE on the balance the other had committed
C34_Witness ==
    \E m \in MeterProcs, o \in MeterProcs :
        /\ mloc[m].outcome = "ok"
        /\ mloc[o].outcome = "ok"
        /\ mloc[m].purchase_id = mloc[o].purchase_id
        /\ mloc[m].call < mloc[o].call
        /\ mloc[m].balance_before = mloc[o].new_balance
        /\ Cardinality(usage_records) = 2
        /\ \E w \in LinkedWallets(mloc[m].purchase_id) :
              checkout_wallets[w].latest_usd_balance
                  = mloc[o].balance_before - mloc[o].billed_amount
                        - mloc[m].billed_amount

\* C35: a finalize call whose sweep succeeded has, when it ends, either
\* returned success or raised the vendor alert.
C35_SweptFundsNeverSilent ==
    \A p \in Procs :
        (pc[p] = "idle" /\ loc[p].sweep = "success")
            => loc[p].outcome = "success" \/ loc[p].alerted

\* C36: a purchase row is created only by a finalize call that observed a
\* token balance at or above minTargetBalance in that call, whose wallet has
\* an offramp address and whose gas-funding receipt was successful.
C36_PurchaseOnlyAfterPreconditions ==
    [][ \A r \in customer_purchases' \ customer_purchases :
          \E p \in Procs :
              /\ pc[p] = "create"
              /\ loc[p].session = r.checkout_session_id
              /\ loc[p].token_balance >= minTargetBalance
              /\ loc[p].wallet.offramp_evm_address
              /\ checkout_wallets[loc[p].session].offramp_evm_address
              /\ loc[p].gas = "success" ]_vars

\* a finalize call has created a purchase row after all three checks
C36_Witness ==
    \E p \in Procs : \E r \in customer_purchases :
        /\ r.id = loc[p].purchase
        /\ r.checkout_session_id = loc[p].session
        /\ loc[p].gas = "success"
        /\ loc[p].wallet.offramp_evm_address
        /\ loc[p].token_balance >= minTargetBalance

\* C37: a topup call reports success, and the stored balance changes, only
\* if at least one sweep transfer was submitted and confirmed in that call.
C37_TopupCreditsOnlySweptFunds ==
    [][ \A o \in OpProcs :
          (/\ oloc[o].op = "topup"
           /\ \/ oloc'[o].outcome = "success" /\ oloc[o].outcome # "success"
              \/ topup_balance' # topup_balance)
              => /\ oloc[o].sweep = "success"
                 /\ oloc[o].sweeps_sent >= 1
                 /\ oloc[o].swept > 0 ]_vars

ledger_vars == <<checkout_vars, meter_vars, gas_vars, ops_vars, aws_vars>>

\* a step of a checkout route on a request that names no flow of the server
UnknownFlowRequest ==
    \E f \in FlowIds \ {checkout_flow_id_of_offer} :
        \/ \E offramp \in BOOLEAN : checkout_init_handler(f, offramp)
        \/ \E o \in OpProcs : verify_deposit_wallet_handler(o, f)
        \/ \E p \in Finalizers : finalize_checkout_handler(p, f)

\* C40: a checkout request (initiate, validate, finalize) whose
\* checkout_flow_id names no known flow is answered not-found; it creates no
\* wallet, sends no chain transaction and changes nothing that persists.
C40_UnknownFlowNotFound ==
    [][ UnknownFlowRequest
          => /\ UNCHANGED ledger_vars
             /\ \E r \in replies' : r.outcome = "flow_not_found" ]_vars

\* the initiate and the validate route have answered not-found, and a wallet
\* of the known flow exists
C40_Witness ==
    /\ \E s \in Sessions : checkout_wallets[s].exists
    /\ \A op \in {"init", "validate"} :
          \E r \in replies : r.op = op /\ r.outcome = "flow_not_found"

====
